---------------------------- MODULE Spec2Model ----------------------------
(***************************************************************************)
(* classic-container: the object-graph resolution engine.                  *)
(*                                                                         *)
(* The sources hold two resolution engines over the same container data    *)
(* (registry, rule store, instance cache):                                 *)
(*   - Resolver  (resolver.py) with Registrator (registrator.py);          *)
(*   - Builder   (builder.py)  with Registry    (registry.py).             *)
(* A container is built on one of them (variable engine, fixed by Init).   *)
(* The facade methods whose code is absent from the sources                *)
(* (Container.resolve over a Builder chain, add_settings, register and the *)
(* Builder-side reset) are written from the specification and carry the    *)
(* prefix Container_.                                                      *)
(***************************************************************************)
EXTENDS Integers, Sequences, FiniteSets, TLC

(***************************************************************************)
(* The state of a program that uses one container.                         *)
(***************************************************************************)
VARIABLES
    app,        \* the application: what it registers, resolves and sets
    program,    \* the classes and functions that exist: name -> definition
    engine,     \* "Resolver" or "Builder"
    falsy,      \* the classes of the application whose instances are falsy
    registry,   \* target -> list of factories
    settings,   \* the rule store: target -> Settings
    instances,  \* the instance cache: target -> object
    nextId,     \* identity of the next object constructed
    last,       \* the last call on the container: what it met (pre) and its outcome
    prev,       \* the call before it, in short
    watermark,  \* nextId when reset last cleared the container, 0 before
    th,         \* the threads that use the container (SpecThreads)
    cfg         \* a Settings object the program builds (SpecSettings)

vars == <<app, program, engine, falsy, registry, settings, instances, nextId, last, prev,
          watermark, th, cfg>>

(***************************************************************************)
(* Bounds of the model.                                                    *)
(***************************************************************************)
\* objects one container may construct in a run
MaxObj == 4
\* frames of the interpreter's call stack available to one resolve
MaxDepth == 4
\* threads that share one container
NumThreads == 2
\* operations one thread calls on the container
MaxOps == 2

(***************************************************************************)
(* Python values.                                                          *)
(***************************************************************************)
EmptyMap == [x \in {} |-> 0]

Put(d, k, v) == [x \in (DOMAIN d) \cup {k} |-> IF x = k THEN v ELSE d[x]]

\* None, as an object: it is falsy
None == [id |-> 0, by |-> "NoneType", truthy |-> FALSE, kw |-> EmptyMap]

\* bool(obj)
Truthy(obj) == obj.truthy

\* dict.get(key): the value, or None
Get(d, k) == IF k \in DOMAIN d THEN d[k] ELSE None

\* objects built outside the container and handed to instance(obj):
\* an ordinary object, and one that evaluates as false (0, an empty list)
Prebuilt(truthy) ==
    [id |-> IF truthy THEN -1 ELSE -2, by |-> "prebuilt",
     truthy |-> truthy, kw |-> EmptyMap]

PrebuiltObjects == {Prebuilt(TRUE), Prebuilt(FALSE)}

\* a value written in the program: 'abc' is Literal("str"), [1, 2, 3] is
\* Literal("list")
Literal(type) == [id |-> -3, by |-> type, truthy |-> TRUE, kw |-> EmptyMap]

SINGLETON == "SINGLETON"
TRANSIENT == "TRANSIENT"
SCOPES == {SINGLETON, TRANSIENT}

SIMPLE_TYPES == {"int", "str", "float", "Enum", "IntEnum", "UUID", "date", "datetime"}

\* inspect.Parameter.empty as an annotation
NoAnnotation == "Parameter.empty"

NoFactory == ""

(***************************************************************************)
(* Errors.  exc is the Python exception class, kind the condition.         *)
(***************************************************************************)
NoErr == [exc |-> "", kind |-> "", on |-> "", chain |-> <<>>]

Err(exc, kind, on, chain) == [exc |-> exc, kind |-> kind, on |-> on, chain |-> chain]

Failed(r) == r.err.exc # ""

(***************************************************************************)
(* settings.py: Settings.                                                  *)
(***************************************************************************)
NoScope == ""

\* Settings.__init__: ok is FALSE when an assertion fails
Settings(init_kw, fct, scope_name, obj) ==
    LET a1 == scope_name = NoScope \/ scope_name \in SCOPES
        a2 == obj = None
              \/ ( /\ obj # None
                   /\ fct = NoFactory
                   /\ DOMAIN init_kw = {}
                   /\ (scope_name = NoScope \/ scope_name = "SINGLETONE") )
    IN  [ok |-> a1 /\ a2,
         scope_ |-> IF scope_name = NoScope THEN SINGLETON ELSE scope_name,
         init_ |-> init_kw,
         factory_ |-> fct,
         instance_ |-> obj]

EMPTY_SETTINGS == Settings(EmptyMap, NoFactory, NoScope, None)

\* the chained calls: each asserts, then sets one field and returns self;
\* ok is FALSE when an assertion failed, and then nothing was set
Settings_init(self, kwargs) ==
    IF self.instance_ = None
    THEN [self EXCEPT !.ok = TRUE, !.init_ = kwargs]
    ELSE [self EXCEPT !.ok = FALSE]

Settings_factory(self, fct) ==
    IF self.instance_ = None
    THEN [self EXCEPT !.ok = TRUE, !.factory_ = fct]
    ELSE [self EXCEPT !.ok = FALSE]

\* the mutant of Settings_scope: the init of the object is dropped as well
Settings_scope_drops_init(self, name) ==
    IF name \in SCOPES /\ (self.instance_ = None \/ name = "SINGLETON")
    THEN [self EXCEPT !.ok = TRUE, !.scope_ = name, !.init_ = EmptyMap]
    ELSE [self EXCEPT !.ok = FALSE]

Settings_scope(self, name) ==
    IF name \in SCOPES /\ (self.instance_ = None \/ name = "SINGLETON")
    THEN [self EXCEPT !.ok = TRUE, !.scope_ = name]
    ELSE [self EXCEPT !.ok = FALSE]

\* the mutant of Settings_instance: the factory is not looked at
Settings_instance_over_factory(self, obj) ==
    IF DOMAIN self.init_ = {} /\ self.scope_ = "SINGLETON"
    THEN [self EXCEPT !.ok = TRUE, !.instance_ = obj]
    ELSE [self EXCEPT !.ok = FALSE]

Settings_instance(self, obj) ==
    IF DOMAIN self.init_ = {} /\ self.factory_ = NoFactory /\ self.scope_ = "SINGLETON"
    THEN [self EXCEPT !.ok = TRUE, !.instance_ = obj]
    ELSE [self EXCEPT !.ok = FALSE]

\* the module-level helpers
init(kwargs) == Settings(kwargs, NoFactory, NoScope, None)

factory(fct) == Settings(EmptyMap, fct, NoScope, None)

scope(name) == Settings(EmptyMap, NoFactory, name, None)

instance(obj) == Settings(EmptyMap, NoFactory, NoScope, obj)

(***************************************************************************)
(* The applications: the classes and functions a program defines.          *)
(* Names follow tests/example.py; X, A, B, C is the diamond.               *)
(***************************************************************************)
Param(name, annotation, forward, default) ==
    [name |-> name, annotation |-> annotation, forward |-> forward,
     default |-> default, kind |-> "POSITIONAL_OR_KEYWORD"]

\* kind: what inspect says the object is
\* mro: cls.__mro__ without object
\* params: the signature; forward marks a string annotation ('CycledB')
\* returns: a function's return annotation
\* body: what a call does - "new" constructs an instance of makes,
\*       "reset_new" first calls container.reset(), "concat" first
\*       evaluates some_str + 'test', "raise" raises RuntimeError,
\*       "none" returns None, "resolve" returns
\*       container.resolve(makes) or container.resolve(makes, overrides)
\* overrides: the second argument of that call, NoOverrides if there is none
Definition(kind, mro, params, returns, body, makes) ==
    [kind |-> kind, mro |-> mro, params |-> params, returns |-> returns,
     body |-> body, makes |-> makes, overrides |-> [given |-> FALSE, rules |-> EmptyMap]]

NoOverrides == [given |-> FALSE, rules |-> EmptyMap]

Overrides(rules) == [given |-> TRUE, rules |-> rules]

\* def make_obj() -> returns: return container.resolve(target, overrides)
Nested(returns, target, overrides) ==
    [Definition("function", <<>>, <<>>, returns, "resolve", target)
        EXCEPT !.overrides = overrides]

Class(name, bases, params) ==
    Definition("class", <<name>> \o bases, params, name, "new", name)

Definitions(name) ==
    CASE name = "Interface" ->
            Definition("abstract", <<"Interface">>, <<>>, "Interface", "abstract", "Interface")
      [] name = "Implementation1" -> Class(name, <<"Interface">>, <<>>)
      [] name = "Implementation2" -> Class(name, <<"Interface">>, <<>>)
      [] name = "Composition" ->
            Class(name, <<>>, <<Param("impl", "Interface", FALSE, "empty")>>)
      [] name = "reset_obj" ->
            Definition("function", <<>>, <<>>, "Interface", "reset_new", "Implementation1")
      [] name = "X" ->
            Class(name, <<>>, <<Param("a", "A", FALSE, "empty"),
                                Param("b", "B", FALSE, "empty")>>)
      [] name = "A" -> Class(name, <<>>, <<Param("c", "C", FALSE, "empty")>>)
      [] name = "B" -> Class(name, <<>>, <<Param("c", "C", FALSE, "empty")>>)
      [] name = "C" -> Class(name, <<>>, <<>>)
      [] name = "CycledA" ->
            Class(name, <<>>, <<Param("instance", "CycledB", TRUE, "empty")>>)
      [] name = "CycledB" ->
            Class(name, <<>>, <<Param("instance", "CycledA", FALSE, "empty")>>)
      [] name = "SelfReferenced" ->
            Class(name, <<>>, <<Param("instance", "SelfReferenced", TRUE, "empty")>>)
      \* a mutual dependency annotated with the classes themselves (the
      \* annotations are set once both classes exist)
      [] name = "LinkedA" ->
            Class(name, <<>>, <<Param("instance", "LinkedB", FALSE, "empty")>>)
      [] name = "LinkedB" ->
            Class(name, <<>>, <<Param("instance", "LinkedA", FALSE, "empty")>>)
      [] name = "SomeCls" -> Class(name, <<>>, <<>>)
      \* a dependency with a default: `dep: SomeCls = None`, `dep: SomeCls = DEFAULT`
      [] name = "WithNoneDefault" ->
            Class(name, <<>>, <<Param("dep", "SomeCls", FALSE, "None")>>)
      [] name = "WithValueDefault" ->
            Class(name, <<>>, <<Param("dep", "SomeCls", FALSE, "value")>>)
      [] name = "OptionalComposition" ->
            Class(name, <<>>, <<Param("obj", "Composition", FALSE, "None")>>)
      [] name = "empty_factory" ->
            Definition("function", <<>>, <<>>, "object", "none", "")
      [] name = "ErrorImplementation" ->
            Definition("class", <<name, "Interface">>,
                       <<Param("some_str", "str", FALSE, "empty")>>, name, "concat", name)
      \* the factories of tests/test_nested_resolve.py
      [] name = "make_obj" -> Nested("Interface", "Implementation1", NoOverrides)
      [] name = "make_obj_with_settings" ->
            Nested("Interface", "Interface",
                   Overrides([t \in {"Interface"} |-> factory("Implementation1")]))
      [] name = "make_obj_with_instance" ->
            Nested("Interface", "Interface",
                   Overrides([t \in {"Interface"} |-> instance(Prebuilt(TRUE))]))
      \* def make_cycle() -> Interface: return container.resolve(Interface)
      [] name = "make_cycle" -> Nested("Interface", "Interface", NoOverrides)
      \* parameters the container has nothing to build for: `n: int = 1`,
      \* `flag: bool = False`, `x=1`, `color: Color = Color.RED`
      [] name = "WithInt" -> Class(name, <<>>, <<Param("n", "int", FALSE, "value")>>)
      [] name = "WithBool" -> Class(name, <<>>, <<Param("flag", "bool", FALSE, "value")>>)
      [] name = "WithUntyped" ->
            Class(name, <<>>, <<Param("x", NoAnnotation, FALSE, "value")>>)
      [] name = "WithEnum" ->
            Class(name, <<>>, <<Param("color", "Color", FALSE, "value")>>)
      \* class Color(Enum)
      [] name = "Color" -> Class(name, <<"Enum">>, <<Param("value", NoAnnotation, FALSE, "empty")>>)
      [] name = "AnyImplementation" -> Class(name, <<>>, <<>>)
      [] name = "ManyImplComposition" ->
            Class(name, <<"Composition">>,
                  <<Param("any_impl", "AnyImplementation", FALSE, "empty"),
                    Param("impl", "Interface", FALSE, "empty")>>)
      \* def make_many() -> Composition:
      \*     return container.resolve(ManyImplComposition,
      \*                              {Interface: factory(Implementation2)})
      [] name = "make_many" ->
            Nested("Composition", "ManyImplComposition",
                   Overrides([t \in {"Interface"} |-> factory("Implementation2")]))
      \* a factory that raises an exception of its own
      [] name = "failing_factory" ->
            Definition("function", <<>>, <<>>, "Interface", "raise", "")

\* what is no class, function or module of the program (an instance, 1)
NoDefinition == Definition("other", <<>>, <<>>, "", "none", "")

Names == {"Interface", "Implementation1", "Implementation2", "Composition",
          "reset_obj", "X", "A", "B", "C", "CycledA", "CycledB", "SelfReferenced",
          "LinkedA", "LinkedB", "SomeCls", "WithNoneDefault", "WithValueDefault",
          "OptionalComposition", "empty_factory", "ErrorImplementation",
          "failing_factory", "make_cycle", "make_obj", "make_obj_with_settings",
          "make_obj_with_instance", "WithInt", "WithBool", "WithUntyped", "WithEnum",
          "Color", "AnyImplementation", "ManyImplComposition", "make_many"}

\* the definition behind a name, as the running program sees it
Defs(name) == IF name \in DOMAIN program THEN program[name] ELSE NoDefinition

\* the applications of the container tests that resolve without failing factories
Apps == {"iface", "diamond", "reset"}

\* the applications whose classes have parameters that may get no value
ParamApps == {"params", "omitted", "defaults"}

\* the applications with dependency cycles and with factories that fail
FailureApps == {"cycle", "errors"}

\* the applications whose factories call resolve themselves
NestedApps == {"nested", "layers", "isolation"}

\* what test_registration_error passes to register: a number and an instance
NotRegisterable == {"1", "Implementation1()"}

\* what the application passes to register
AppTargets(a) ==
    CASE a = "iface"   -> {"Interface", "Implementation1", "Implementation2"}
      [] a = "diamond" -> {"X", "A", "B", "C"}
      [] a = "cycle"   -> {"CycledA", "CycledB", "SelfReferenced", "LinkedA", "LinkedB"}
      [] a = "reset"   -> {"Composition", "Implementation1", "reset_obj"}
      [] a = "defaults" -> {"WithNoneDefault", "WithValueDefault", "Composition",
                            "OptionalComposition"}
      [] a = "errors"  -> {"ErrorImplementation"} \cup NotRegisterable
      [] a = "priority" -> {"Implementation1", "Implementation2", "LinkedB"}
      [] a = "params" -> {}
      [] a = "omitted" -> {"WithValueDefault", "WithNoneDefault"}
      [] a = "isolation" -> {}
      [] a = "nested"  -> {"Composition", "Implementation1", "Implementation2"}
      [] a = "layers"  -> {"Implementation1"}

\* the argument lists the application calls register with: each of its
\* targets alone, and the lists of several targets
AppRegisters(a) ==
    {<<t>> : t \in AppTargets(a)}
    \cup CASE a = "params" ->
                {<<"WithInt", "WithBool", "WithUntyped", "WithEnum">>,
                 <<"WithInt", "1">>}
            [] a = "isolation" ->
                {<<"ManyImplComposition", "AnyImplementation",
                   "Implementation1", "Implementation2">>}
            [] OTHER -> {}

\* what the application passes to resolve
AppResolves(a) ==
    CASE a = "iface"   -> {"Interface"}
      [] a = "diamond" -> {"X", "C"}
      [] a = "cycle"   -> {"CycledA", "CycledB", "SelfReferenced", "LinkedA", "LinkedB"}
      [] a = "reset"   -> {"Composition", "Interface"}
      [] a = "defaults" -> {"WithNoneDefault", "WithValueDefault", "Composition",
                            "OptionalComposition"}
      [] a = "errors"  -> {"Composition", "Interface"}
      [] a = "priority" -> {"Composition", "LinkedB"}
      [] a = "params" -> {"WithInt", "WithBool", "WithUntyped", "WithEnum"}
      [] a = "omitted" -> {"WithValueDefault", "WithNoneDefault"}
      [] a = "isolation" -> {"Composition", "ManyImplComposition"}
      [] a = "nested"  -> {"Composition", "Interface"}
      [] a = "layers"  -> {"Interface", "Implementation1"}

\* classes whose instances may evaluate as false (they define __len__ or __bool__)
MayBeFalsy(a) ==
    CASE a = "diamond" -> {"C"}
      [] a = "iface" -> {"Implementation1"}
      [] a = "layers" -> {"Implementation1"}
      [] OTHER -> {}


(***************************************************************************)
(* registry.py: Registry.  The storage is a defaultdict(list): a map from  *)
(* a target to the list of its factories.                                  *)
(***************************************************************************)
\* the members a module hands to registration (the applications pass none)
ModuleMembers(module) == <<>>

InSeq(x, seq) == \E i \in 1..Len(seq) : seq[i] = x

_get_interfaces_for_cls(target) == Defs(target).mro

_get_factory_result(fct) ==
    IF Defs(fct).kind \in {"class", "abstract"} THEN fct ELSE Defs(fct).returns

\* the mutant of Registry_add_entry: the factory is appended whether or not
\* the list has it
Registry_add_entry_again(storage, cls, fct) ==
    LET factories == IF cls \in DOMAIN storage THEN storage[cls] ELSE <<>>
    IN  IF fct # NoFactory
        THEN Put(storage, cls, Append(factories, fct))
        ELSE Put(storage, cls, factories)

Registry_add_entry(storage, cls, fct) ==
    LET factories == IF cls \in DOMAIN storage THEN storage[cls] ELSE <<>>
    IN  IF fct # NoFactory /\ ~InSeq(fct, factories)
        THEN Put(storage, cls, Append(factories, fct))
        ELSE Put(storage, cls, factories)

RECURSIVE AddEntries(_, _, _, _)
AddEntries(storage, ancestors, i, cls) ==
    IF i > Len(ancestors) THEN storage
    ELSE AddEntries(Registry_add_entry(storage, ancestors[i], cls), ancestors, i + 1, cls)

Registry_register_interface(storage, interface) ==
    Registry_add_entry(storage, interface, NoFactory)

\* the mutant of Registry_register_class: the class gets an entry, as an
\* interface does, and is no factory of anything
Registry_register_class_as_interface(storage, cls) ==
    Registry_add_entry(storage, cls, NoFactory)

Registry_register_class(storage, cls) ==
    AddEntries(Registry_add_entry(storage, cls, cls),
               _get_interfaces_for_cls(cls), 1, cls)

Registry_register_function(storage, func) ==
    LET factory_returns == _get_factory_result(func)
    IN  IF Defs(factory_returns).kind \notin {"class", "abstract"}
        THEN storage
        ELSE Registry_add_entry(storage, factory_returns, func)

RECURSIVE Registry__register(_, _), Registry_register_module(_, _, _)
\* result "" stands for None: the target was not identified
Registry__register(storage, target) ==
    LET k == Defs(target).kind
    IN  CASE k = "module" ->
               [storage |-> Registry_register_module(storage, ModuleMembers(target), 1),
                result |-> "module"]
          [] k = "abstract" ->
               [storage |-> Registry_register_interface(storage, target),
                result |-> "interface"]
          [] k = "function" ->
               [storage |-> Registry_register_function(storage, target),
                result |-> "function"]
          [] k = "class" ->
               [storage |-> Registry_register_class(storage, target),
                result |-> "class"]
          [] k = "generic" ->
               [storage |-> Registry_register_interface(storage, target),
                result |-> "generic"]
          [] OTHER -> [storage |-> storage, result |-> ""]

Registry_register_module(storage, members, i) ==
    IF i > Len(members) THEN storage
    ELSE Registry_register_module(
             Registry__register(storage, members[i]).storage, members, i + 1)

RECURSIVE Registry_register(_, _, _)
\* Registry.register(*targets): stops at the first target it cannot identify
Registry_register(storage, targets, i) ==
    IF i > Len(targets) THEN [storage |-> storage, err |-> NoErr]
    ELSE LET r == Registry__register(storage, targets[i])
         IN  IF r.result = ""
             THEN [storage |-> r.storage,
                   err |-> Err("ValueError", "Registration", targets[i], <<>>)]
             ELSE Registry_register(r.storage, targets, i + 1)

\* the mutant of Registry_get: of several factories the first is taken
Registry_get_first(storage, target) ==
    LET factories == IF target \in DOMAIN storage THEN storage[target] ELSE <<>>
    IN  IF Len(factories) = 0
        THEN [fct |-> NoFactory,
              err |-> Err("ValueError", "NoImplementation", target, <<>>)]
        ELSE [fct |-> factories[1], err |-> NoErr]

\* Registry.get: the single factory of the target
Registry_get(storage, target) ==
    LET factories == IF target \in DOMAIN storage THEN storage[target] ELSE <<>>
    IN  IF Len(factories) = 0
        THEN [fct |-> NoFactory,
              err |-> Err("ValueError", "NoImplementation", target, <<>>)]
        ELSE IF Len(factories) > 1
        THEN [fct |-> NoFactory,
              err |-> Err("ValueError", "AmbiguousImplementation", target, <<>>)]
        ELSE [fct |-> factories[1], err |-> NoErr]

\* Registry.signature: the parameters, forward references resolved
Registry_signature(cls) ==
    [i \in 1..Len(Defs(cls).params) |->
        [Defs(cls).params[i] EXCEPT !.forward = FALSE]]

(***************************************************************************)
(* registrator.py: Registrator, over the same storage.                     *)
(***************************************************************************)
Registrator_add_entry(storage, cls, fct) ==
    LET factories == IF cls \in DOMAIN storage THEN storage[cls] ELSE <<>>
    IN  IF fct # NoFactory /\ ~InSeq(fct, factories)
        THEN Put(storage, cls, Append(factories, fct))
        ELSE Put(storage, cls, factories)

RECURSIVE RegistratorAddEntries(_, _, _, _)
RegistratorAddEntries(storage, ancestors, i, cls) ==
    IF i > Len(ancestors) THEN storage
    ELSE RegistratorAddEntries(
             Registrator_add_entry(storage, ancestors[i], cls), ancestors, i + 1, cls)

get_interfaces_for_cls(target) == Defs(target).mro

get_factory_result(fct) ==
    IF Defs(fct).kind \in {"class", "abstract"} THEN fct ELSE Defs(fct).returns

Registrator_register_interface(storage, interface) ==
    Registrator_add_entry(storage, interface, NoFactory)

\* the mutant of Registrator_register_class: the class is a factory of
\* itself only
Registrator_register_class_self_only(storage, cls) ==
    Registrator_add_entry(storage, cls, cls)

Registrator_register_class(storage, cls) ==
    RegistratorAddEntries(Registrator_add_entry(storage, cls, cls),
                          get_interfaces_for_cls(cls), 1, cls)

Registrator_register_function(storage, func) ==
    LET factory_returns == get_factory_result(func)
    IN  IF Defs(factory_returns).kind \notin {"class", "abstract"}
        THEN storage
        ELSE Registrator_add_entry(storage, factory_returns, func)

\* the mutant of Registrator__register: what is not identified passes as an
\* interface
Registrator__register_any(storage, target) ==
    LET k == Defs(target).kind
    IN  CASE k = "function" ->
               [storage |-> Registrator_register_function(storage, target),
                result |-> "function"]
          [] k = "class" ->
               [storage |-> Registrator_register_class(storage, target),
                result |-> "class"]
          [] OTHER ->
               [storage |-> Registrator_register_interface(storage, target),
                result |-> "interface"]

RECURSIVE Registrator__register(_, _), Registrator_register_module(_, _, _)
Registrator__register(storage, target) ==
    LET k == Defs(target).kind
    IN  CASE k = "module" ->
               [storage |-> Registrator_register_module(storage, ModuleMembers(target), 1),
                result |-> "module"]
          [] k = "abstract" ->
               [storage |-> Registrator_register_interface(storage, target),
                result |-> "interface"]
          [] k = "function" ->
               [storage |-> Registrator_register_function(storage, target),
                result |-> "function"]
          [] k = "class" ->
               [storage |-> Registrator_register_class(storage, target),
                result |-> "class"]
          [] OTHER -> [storage |-> storage, result |-> ""]

Registrator_register_module(storage, members, i) ==
    IF i > Len(members) THEN storage
    ELSE Registrator_register_module(
             Registrator__register(storage, members[i]).storage, members, i + 1)

RECURSIVE Registrator_call(_, _, _)
\* Registrator.__call__(*targets), under the lock
Registrator_call(storage, targets, i) ==
    IF i > Len(targets) THEN [storage |-> storage, err |-> NoErr]
    ELSE LET r == Registrator__register(storage, targets[i])
         IN  IF r.result = ""
             THEN [storage |-> r.storage,
                   err |-> Err("RegistrationError", "Registration", targets[i], <<>>)]
             ELSE Registrator_call(r.storage, targets, i + 1)

(***************************************************************************)
(* The state of one container while an operation runs: a record m.         *)
(*   registry, settings, instances : the container's three dicts           *)
(*   builders : the chain of active Builders, builders[b - 1] the previous *)
(*              of builders[b]; builders[1] holds the container's own      *)
(*              settings and cache dicts (the same objects, not copies)    *)
(*   stack    : Resolve._stack of the running Resolver call                *)
(*   active   : resolve calls in progress                                   *)
(*   depth    : frames in use;  nextId : the next object's identity        *)
(*   calls    : the factories invoked so far by the running operation      *)
(*   resets   : the reset calls made so far by the running operation       *)
(*   watermark: nextId at the last of them that cleared the container      *)
(*   path     : the targets being built, from the requested one down, each  *)
(*              with its factory and the argument in work                    *)
(*   raised   : the exception the call of a factory ended with, "" if none  *)
(*   thread   : the thread that runs the operation                          *)
(*   lock     : the container's lock: its owner and how often it holds it   *)
(*   nested   : the resolve calls made by factories of the operation        *)
(*   lookups  : the rule lookups of the Builders of the operation           *)
(*   builds   : the instances the Builders of the operation have made       *)
(*   skips    : the failed builds of a parameter the operation went on      *)
(*              after, each [target, kind]                                  *)
(* An operation returns [m, ret, err].                                     *)
(***************************************************************************)
Ok(m, ret) == [m |-> m, ret |-> ret, err |-> NoErr]

Raise(m, err) == [m |-> m, ret |-> None, err |-> err]

\* inspect.isclass(annotation); inspect.Parameter.empty is itself a class
IsClass(annotation) ==
    \/ Defs(annotation).kind \in {"class", "abstract"}
    \/ annotation \in SIMPLE_TYPES \cup {"bool", "object", NoAnnotation}

\* typing.get_origin(annotation) is not None
_is_generic(annotation) == Defs(annotation).kind = "generic"

\* an annotation left as a string is the string, not the class it names
StringAnnotation(name) == "'" \o name \o "'"

IsString(target) == \E name \in Names : target = StringAnnotation(name)

\* the mutant of Resolver_reset: the instance cache is kept
Resolver_reset_rules_only(m) == [m EXCEPT !.settings = EmptyMap]

\* Resolver.reset: both dicts are replaced, with no assertion and no lock
Resolver_reset(m) == [m EXCEPT !.settings = EmptyMap, !.instances = EmptyMap]

\* Container.reset of the Builder container: asserts that no resolve is running
Container_reset(m) ==
    IF m.active # 0
    THEN Raise(m, Err("AssertionError", "ResetDuringResolve", "", <<>>))
    ELSE Ok([m EXCEPT !.settings = EmptyMap, !.instances = EmptyMap], None)

\* the container's rule store and instance cache, as dicts: while a Builder
\* resolve runs they are the dicts the first Builder holds
ContainerSettings(m) ==
    IF m.builders # <<>> THEN m.builders[1].settings ELSE m.settings

ContainerCache(m) ==
    IF m.builders # <<>> THEN m.builders[1].cache ELSE m.instances

\* the entry of the log resets for a reset() that found the container m
\* and ended as r
ResetEntry(m, r) ==
    [active |-> m.active,
     rules_before |-> ContainerSettings(m),
     cache_before |-> ContainerCache(m),
     rules_after |-> ContainerSettings(r.m),
     cache_after |-> ContainerCache(r.m),
     raised |-> r.err.exc]

Logged(m, r) ==
    [r EXCEPT !.m.resets = Append(@, ResetEntry(m, r)),
              !.m.watermark = IF r.err.exc = "" THEN m.nextId ELSE @]

\* container.reset() as the application calls it; the call is logged in resets
CallReset(m) ==
    Logged(m, IF m.engine = "Resolver" THEN Ok(Resolver_reset(m), None)
              ELSE Container_reset(m))

MissingRequired(fct, kwargs) ==
    \E i \in 1..Len(Defs(fct).params) :
        /\ Defs(fct).params[i].default = "empty"
        /\ Defs(fct).params[i].kind = "POSITIONAL_OR_KEYWORD"
        /\ Defs(fct).params[i].name \notin DOMAIN kwargs

NewObject(m, cls, kwargs) ==
    [id |-> m.nextId, by |-> cls, truthy |-> cls \notin m.falsy, kw |-> kwargs]

\* the body of a class or function ends: a new object is returned
Construct(r, cls, kwargs) ==
    IF Failed(r) THEN r
    ELSE Ok([r.m EXCEPT !.nextId = @ + 1], NewObject(r.m, cls, kwargs))

\* the container's lock when no thread holds it
Unlocked == [owner |-> "", count |-> 0]

\* the mutant of RLock_acquire: a lock that is not reentrant
Lock_acquire(lock, thread) ==
    IF lock.count = 0
    THEN [ok |-> TRUE, lock |-> [owner |-> thread, count |-> 1]]
    ELSE [ok |-> FALSE, lock |-> lock]

\* `with self._lock` on a threading.RLock: entered at once when the lock is
\* free or held by the same thread; ok is FALSE when the thread has to wait
RLock_acquire(lock, thread) ==
    IF lock.count = 0 \/ lock.owner = thread
    THEN [ok |-> TRUE, lock |-> [owner |-> thread, count |-> lock.count + 1]]
    ELSE [ok |-> FALSE, lock |-> lock]

\* the end of the with block
RLock_release(lock) ==
    IF lock.count <= 1 THEN Unlocked ELSE [lock EXCEPT !.count = @ - 1]

\* a thread that waits for a lock it holds itself waits for ever
Deadlock(m, target) == Raise(m, Err("Deadlock", "Deadlock", target, <<>>))

\* the call of the factory fct ends with the exception exc
Throw(m, exc, fct) ==
    Raise([m EXCEPT !.raised = exc], Err(exc, "ConstructionError", fct, <<>>))

RECURSIVE Resolver_call(_, _), Container_resolve(_, _, _)
\* a resolve made by a factory has ended as r: it is noted in nested
NestedLogged(m, fct, target, r) ==
    [r EXCEPT !.m.nested = Append(@, [by |-> fct, target |-> target, ret |-> r.ret,
                                      err |-> r.err, active |-> m.active])]

\* container.resolve(target) or container.resolve(target, overrides) in the
\* body of a factory; Resolver.__call__(self, cls) takes no second argument
CallResolve(m, fct, target, overrides) ==
    IF m.engine = "Resolver"
    THEN IF overrides.given
         THEN Throw(m, "TypeError", fct)
         ELSE NestedLogged(m, fct, target, Resolver_call(m, target))
    ELSE NestedLogged(m, fct, target, Container_resolve(m, target, overrides.rules))

\* the body of the factory runs, once Python has bound the arguments
RunBody(m, fct, kwargs, body) ==
    IF body = "abstract"
    THEN Throw(m, "TypeError", fct)
    ELSE IF body = "none"
    THEN Ok(m, None)
    ELSE IF body = "raise"
    THEN Throw(m, "RuntimeError", fct)
    ELSE IF body = "resolve"
    THEN CallResolve(m, fct, Defs(fct).makes, Defs(fct).overrides)
    ELSE IF body = "concat" /\ kwargs["some_str"].by # "str"
    THEN Throw(m, "TypeError", fct)
    ELSE Construct(IF body = "reset_new" THEN CallReset(m) ELSE Ok(m, None),
                   Defs(fct).makes, kwargs)

\* factory(**kwargs): Python binds the arguments, then runs the body
CallFactory(m, fct, kwargs) ==
    IF MissingRequired(fct, kwargs)
    THEN Throw(m, "TypeError", fct)
    ELSE RunBody([m EXCEPT !.calls = Append(@, fct)], fct, kwargs, Defs(fct).body)

\* the frame of a call is left
Leave(r, depth) == [r EXCEPT !.m.depth = depth]

(***************************************************************************)
(* builder.py: Builder.                                                    *)
(***************************************************************************)
RECURSIVE get_settings(_, _, _)
\* the mutant of get_settings: the walk stops before the first layer of the
\* chain, the one that holds the rules of the container
get_settings_above_first(m, b, target) ==
    IF b > 1 /\ target \in DOMAIN m.builders[b].settings
    THEN [s |-> m.builders[b].settings[target], layer |-> b]
    ELSE [s |-> EMPTY_SETTINGS, layer |-> b]

\* the mutant of get_settings: the rules of the container (the first layer)
\* are looked at before those of the Builder itself
get_settings_root_first(m, b, target) ==
    IF target \in DOMAIN m.builders[1].settings
    THEN [s |-> m.builders[1].settings[target], layer |-> 1]
    ELSE IF target \in DOMAIN m.builders[b].settings
    THEN [s |-> m.builders[b].settings[target], layer |-> b]
    ELSE [s |-> EMPTY_SETTINGS, layer |-> 1]

\* the nearest rule of the chain and the layer that holds it
get_settings(m, b, target) ==
    IF target \in DOMAIN m.builders[b].settings
    THEN [s |-> m.builders[b].settings[target], layer |-> b]
    ELSE IF b > 1
    THEN get_settings(m, b - 1, target)
    ELSE [s |-> EMPTY_SETTINGS, layer |-> b]

RECURSIVE get_cached(_, _, _)
get_cached(m, b, target) ==
    IF Truthy(Get(m.builders[b].cache, target))
    THEN m.builders[b].cache[target]
    ELSE IF b > 1
    THEN get_cached(m, b - 1, target)
    ELSE None

\* raises on a target already in _classes, adds it otherwise
detect_cycle(m, b, target) ==
    IF target \in m.builders[b].classes
    THEN Raise(m, Err("ValueError", "CycleDetected", target, <<>>))
    ELSE Ok([m EXCEPT !.builders[b].classes = @ \cup {target}], None)

\* the mutant of Builder_caches: the scope is not looked at
Builder_caches_any_scope(obj, target_settings) == Truthy(obj)

\* `if instance and target_settings.scope_ == SINGLETON`
Builder_caches(obj, target_settings) ==
    Truthy(obj) /\ target_settings.scope_ = SINGLETON

RECURSIVE build(_, _, _), BuildKwargs(_, _, _, _, _, _, _)
cache_instance(m, b, target, obj) ==
    [m EXCEPT !.builders[b].cache = Put(@, target, obj)]

\* a build has made an instance: the rule and its layer, the instance and the
\* caches of the chain at the return are noted in builds
Built(r, found, target) ==
    [r EXCEPT !.m.builds = Append(@, [target |-> target, layer |-> found.layer,
                                      s |-> found.s, obj |-> r.ret,
                                      caches |-> [k \in 1..Len(r.m.builders) |->
                                                     r.m.builders[k].cache]])]

\* the end of build: a SINGLETON is cached in the layer that holds its rule
build_cache(made, found, target) ==
    IF Failed(made) THEN made
    ELSE IF Builder_caches(made.ret, found.s)
    THEN Built(Ok(cache_instance(made.m, found.layer, target, made.ret), made.ret),
               found, target)
    ELSE Built(made, found, target)

\* instance = factory(**factory_kwargs), when the loop has ended
build_call(args, fct) ==
    IF Failed(args) THEN Raise(args.m, args.err)
    ELSE CallFactory(args.m, fct, args.kwargs)

\* the parameter i was built as sub: it is bound, dropped or missing
BuildKwargs_bind(sub, b, fct, factory_settings, sig, i, factory_kwargs) ==
    IF Failed(sub)
    THEN IF sub.err.exc = "ValueError" /\ sig[i].default = "None"
         THEN BuildKwargs([sub.m EXCEPT !.skips = Append(@, [target |-> sig[i].annotation,
                                                              kind |-> sub.err.kind])],
                          b, fct, factory_settings, sig, i + 1, factory_kwargs)
         ELSE [m |-> sub.m, kwargs |-> factory_kwargs, err |-> sub.err]
    ELSE IF sub.ret = None /\ sig[i].default = "empty"
    THEN [m |-> sub.m, kwargs |-> factory_kwargs,
          err |-> Err("ValueError", "MissingDependency", sig[i].name, <<>>)]
    ELSE BuildKwargs(sub.m, b, fct, factory_settings, sig, i + 1,
                     Put(factory_kwargs, sig[i].name, sub.ret))

\* the loop over the parameters of the factory, from parameter i on
BuildKwargs(m, b, fct, factory_settings, sig, i, factory_kwargs) ==
    IF i > Len(sig)
    THEN [m |-> m, kwargs |-> factory_kwargs, err |-> NoErr]
    ELSE IF sig[i].name \in DOMAIN factory_settings.init_
    THEN BuildKwargs(m, b, fct, factory_settings, sig, i + 1,
                     Put(factory_kwargs, sig[i].name,
                         factory_settings.init_[sig[i].name]))
    ELSE IF /\ sig[i].annotation \notin SIMPLE_TYPES
            /\ sig[i].kind \notin {"VAR_POSITIONAL", "VAR_KEYWORD"}
            /\ (IsClass(sig[i].annotation) \/ _is_generic(sig[i].annotation))
    THEN BuildKwargs_bind(build(m, b, sig[i].annotation),
                          b, fct, factory_settings, sig, i, factory_kwargs)
    ELSE BuildKwargs(m, b, fct, factory_settings, sig, i + 1, factory_kwargs)

\* a rule lookup of the Builder b is noted: the target, what get_settings
\* returned, and the rules of the chain from the first Builder to b
Looked(m, b, target, found) ==
    [m EXCEPT !.lookups = Append(@, [target |-> target, b |-> b, layer |-> found.layer,
                                     s |-> found.s,
                                     rules |-> [k \in 1..b |-> m.builders[k].settings]])]

\* the rule of the factory was found: the parameters are built, the factory
\* is called, the instance is cached
build_args(m, b, target, found, fct, factory_found) ==
    build_cache(
        build_call(BuildKwargs(Looked(m, b, fct, factory_found), b, fct, factory_found.s,
                               Registry_signature(fct), 1, EmptyMap),
                   fct),
        found, target)

\* the factory was chosen: factory_settings = self.get_settings(factory)[0]
build_with(m, b, target, found, chosen) ==
    IF Failed(chosen) THEN Raise(m, chosen.err)
    ELSE build_args(m, b, target, found, chosen.fct, get_settings(m, b, chosen.fct))

\* after detect_cycle: the factory of the rule, or the one of the registry
build_factory(cyc, b, target, found) ==
    IF Failed(cyc) THEN cyc
    ELSE build_with(cyc.m, b, target, found,
                    IF found.s.factory_ # NoFactory
                    THEN [fct |-> found.s.factory_, err |-> NoErr]
                    ELSE Registry_get(cyc.m.registry, target))

\* its instance, if the rule has one, is the result
build_instance(m, b, target, found) ==
    IF Truthy(found.s.instance_) THEN Ok(m, found.s.instance_)
    ELSE build_factory(detect_cycle(m, b, target), b, target, found)

\* the rule of the target was found
build_rule(m, b, target, found) ==
    build_instance(Looked(m, b, target, found), b, target, found)

\* the cache was read: what it holds, if anything, is the result
build_cached(m, b, target, cached) ==
    IF Truthy(cached) THEN Ok(m, cached)
    ELSE build_rule(m, b, target, get_settings(m, b, target))

\* Builder.build, the steps in the order of the code
build(m, b, target) ==
    IF m.depth >= MaxDepth
    THEN Raise(m, Err("RecursionError", "RecursionError", target, <<>>))
    ELSE Leave(build_cached([m EXCEPT !.depth = @ + 1], b, target,
                            get_cached(m, b, target)),
               m.depth)

(***************************************************************************)
(* resolver.py: Resolve (the chain shown in error messages) and Resolver.  *)
(***************************************************************************)
\* reads target.__module__ and target.__qualname__, which a str does not have
add_target(m, target) ==
    IF IsString(target)
    THEN Raise(m, Err("AttributeError", "AttributeError", target, <<>>))
    ELSE Ok([m EXCEPT !.stack = Append(@, [cls |-> target, fctr |-> "-", arg |-> "-"]),
                      !.path = Append(@, [cls |-> target, fctr |-> "-", arg |-> "-"])],
            None)

add_factory(m, fct) ==
    [m EXCEPT !.stack[Len(m.stack)].fctr = fct, !.path[Len(m.path)].fctr = fct]

add_arg(m, arg_name) ==
    [m EXCEPT !.stack[Len(m.stack)].arg = arg_name, !.path[Len(m.path)].arg = arg_name]

\* _get_instance returns: its target is no longer being built
Returned(m) == [m EXCEPT !.path = SubSeq(@, 1, Len(@) - 1)]

pop(m) == [m EXCEPT !.stack = SubSeq(@, 1, Len(@) - 1)]

render(m) == m.stack

\* inspect.signature: a string annotation stays a string
Signature(fct) ==
    [i \in 1..Len(Defs(fct).params) |->
        [Defs(fct).params[i] EXCEPT
            !.annotation = IF Defs(fct).params[i].forward
                           THEN StringAnnotation(@) ELSE @]]

\* the mutant of Resolver_get_factory_for: a target without factories is
\* reported like one with several
Resolver_get_factory_for_many(m, cls) ==
    LET m1 == IF cls \in DOMAIN m.registry THEN m
              ELSE [m EXCEPT !.registry = Put(@, cls, <<>>)]
        factories == m1.registry[cls]
    IN  IF Len(factories) # 1
        THEN [m |-> m1, fct |-> NoFactory,
              err |-> Err("ResolutionError", "AmbiguousImplementation", cls, render(m1))]
        ELSE [m |-> m1, fct |-> factories[1], err |-> NoErr]

\* self._registry[cls] on the defaultdict: a missing key is added
Resolver_get_factory_for(m, cls) ==
    LET m1 == IF cls \in DOMAIN m.registry THEN m
              ELSE [m EXCEPT !.registry = Put(@, cls, <<>>)]
        factories == m1.registry[cls]
    IN  IF Len(factories) = 0
        THEN [m |-> m1, fct |-> NoFactory,
              err |-> Err("ResolutionError", "NoImplementation", cls, render(m1))]
        ELSE IF Len(factories) > 1
        THEN [m |-> m1, fct |-> NoFactory,
              err |-> Err("ResolutionError", "AmbiguousImplementation", cls, render(m1))]
        ELSE [m |-> m1, fct |-> factories[1], err |-> NoErr]

\* the mutant of Resolver_settings: the init map of the rule is not read
Resolver_settings_without_init(m, cls) ==
    IF cls \in DOMAIN m.settings
    THEN [m.settings[cls] EXCEPT !.init_ = EmptyMap]
    ELSE EMPTY_SETTINGS

\* self._settings.get(cls, empty_settings)
Resolver_settings(m, cls) ==
    IF cls \in DOMAIN m.settings THEN m.settings[cls] ELSE EMPTY_SETTINGS

\* `if instance and settings.scope_ == SINGLETON: self._instances[cls] = instance`
Resolver_cache(made, cls, settings_) ==
    IF Failed(made) THEN made
    ELSE IF Truthy(made.ret) /\ settings_.scope_ = SINGLETON
    THEN Ok([made.m EXCEPT !.instances = Put(@, cls, made.ret)], made.ret)
    ELSE made

\* a TypeError of the call becomes a ResolutionError with the chain
Resolver_wrap(made, fct) ==
    IF Failed(made) /\ made.err.exc = "TypeError"
    THEN Raise(made.m, Err("ResolutionError", "ConstructionError", fct, render(made.m)))
    ELSE made

\* factory(**kwargs), when the arguments were resolved
Resolver_invoke(args, fct) ==
    IF Failed(args) THEN Raise(args.m, args.err)
    ELSE Resolver_wrap(CallFactory(args.m, fct, args.kwargs), fct)

\* _get_instance after _create_instance: stack.pop(), unless it raised
Resolver_pop(made) ==
    IF Failed(made) THEN made ELSE Ok(Returned(pop(made.m)), made.ret)

RECURSIVE Resolver_get_instance(_, _),
          Resolver_resolve_kwargs_for_factory(_, _, _, _, _, _)
\* the parameter i was resolved as sub: it is bound, left out or missing
Resolver_bind(sub, fct, settings_, sig, i, kwargs) ==
    IF Failed(sub)
    THEN [m |-> sub.m, kwargs |-> kwargs, err |-> sub.err]
    ELSE IF sub.ret # None
    THEN Resolver_resolve_kwargs_for_factory(sub.m, fct, settings_, sig, i + 1,
             Put(kwargs, sig[i].name, sub.ret))
    ELSE IF sig[i].default = "empty"
    THEN [m |-> sub.m, kwargs |-> kwargs,
          err |-> Err("ResolutionError", "MissingDependency", sig[i].name,
                      render(sub.m))]
    ELSE Resolver_resolve_kwargs_for_factory(sub.m, fct, settings_, sig, i + 1, kwargs)

\* the loop over the parameters of the factory, from parameter i on; m has
\* the argument of the previous round on its stack
Resolver_resolve_kwargs_for_factory(m, fct, settings_, sig, i, kwargs) ==
    IF i > Len(sig)
    THEN [m |-> m, kwargs |-> kwargs, err |-> NoErr]
    ELSE IF sig[i].name \in DOMAIN settings_.init_
    THEN Resolver_resolve_kwargs_for_factory(add_arg(m, sig[i].name), fct, settings_,
             sig, i + 1, Put(kwargs, sig[i].name, settings_.init_[sig[i].name]))
    ELSE IF \/ sig[i].annotation = NoAnnotation
            \/ sig[i].annotation \in SIMPLE_TYPES
            \/ Defs(sig[i].annotation).kind = "function"
    THEN Resolver_resolve_kwargs_for_factory(add_arg(m, sig[i].name), fct, settings_,
             sig, i + 1, kwargs)
    ELSE Resolver_bind(Resolver_get_instance(add_arg(m, sig[i].name), sig[i].annotation),
                       fct, settings_, sig, i, kwargs)

Resolver_call_factory(m, fct) ==
    Resolver_invoke(
        Resolver_resolve_kwargs_for_factory(add_factory(m, fct), fct,
            Resolver_settings(m, fct), Signature(fct), 1, EmptyMap),
        fct)

\* the factory was chosen: it is called and its instance cached
Resolver_create_with(chosen, cls, settings_) ==
    IF Failed(chosen) THEN Raise(chosen.m, chosen.err)
    ELSE Resolver_cache(Resolver_call_factory(chosen.m, chosen.fct), cls, settings_)

\* _create_instance, with the settings of cls read
Resolver_create_from(m, cls, settings_) ==
    IF Truthy(settings_.instance_) THEN Ok(m, settings_.instance_)
    ELSE Resolver_create_with(
             IF settings_.factory_ # NoFactory
             THEN [m |-> m, fct |-> settings_.factory_, err |-> NoErr]
             ELSE Resolver_get_factory_for(m, cls),
             cls, settings_)

Resolver_create_instance(m, cls) ==
    Resolver_create_from(m, cls, Resolver_settings(m, cls))

\* _get_instance after stack.add_target(cls)
Resolver_get_cached(added, cls) ==
    IF Failed(added) THEN added
    ELSE IF cls \in DOMAIN added.m.instances
    THEN Ok(Returned(added.m), added.m.instances[cls])
    ELSE Resolver_pop(Resolver_create_instance(added.m, cls))

Resolver_get_instance(m, cls) ==
    IF m.depth >= MaxDepth
    THEN Raise(m, Err("RecursionError", "RecursionError", cls, <<>>))
    ELSE Leave(Resolver_get_cached(add_target([m EXCEPT !.depth = @ + 1], cls), cls),
               m.depth)

\* the Resolve of the call is gone when it ends, and the lock is released
Resolver_end(r, m) ==
    [r EXCEPT !.m.stack = m.stack, !.m.active = m.active, !.m.lock = m.lock]

\* the body of the with block: a fresh Resolve, then _get_instance
Resolver_locked(acq, m, cls) ==
    IF ~acq.ok THEN Deadlock(m, cls)
    ELSE Resolver_end(
             Resolver_get_instance([m EXCEPT !.lock = acq.lock, !.stack = <<>>,
                                             !.active = @ + 1], cls),
             m)

\* Resolver.__call__: `with self._lock`
Resolver_call(m, cls) == Resolver_locked(RLock_acquire(m.lock, m.thread), m, cls)

(***************************************************************************)
(* The facade of the Builder container (from the specification).           *)
(***************************************************************************)
\* resolve(target): a fresh Builder on the container's settings and cache when
\* no resolve is running, else one chained to the running Builder with the
\* overrides as its settings; the previous Builder is restored at the end
Container_layer(m, overrides) ==
    IF m.builders = <<>>
    THEN [settings |-> m.settings, cache |-> m.instances, classes |-> {}]
    ELSE [settings |-> overrides, cache |-> EmptyMap, classes |-> {}]

\* the Builder of the call is dropped; the errors of the build leave as
\* resolution errors
Container_resolve_end(r, m) ==
    [m |-> [r.m EXCEPT
               !.builders = SubSeq(@, 1, Len(m.builders)),
               !.active = m.active,
               !.lock = m.lock,
               !.settings = IF m.builders = <<>> THEN r.m.builders[1].settings ELSE @,
               !.instances = IF m.builders = <<>> THEN r.m.builders[1].cache ELSE @],
     ret |-> r.ret,
     err |-> IF r.err.exc \in {"ValueError", "TypeError", "RuntimeError"}
             THEN [r.err EXCEPT !.exc = "ResolutionError"] ELSE r.err]

Container_resolve_locked(acq, m, target, overrides) ==
    IF ~acq.ok THEN Deadlock(m, target)
    ELSE Container_resolve_end(
             build([m EXCEPT !.builders = Append(@, Container_layer(m, overrides)),
                             !.active = @ + 1,
                             !.lock = acq.lock],
                   Len(m.builders) + 1, target),
             m)

Container_resolve(m, target, overrides) ==
    Container_resolve_locked(RLock_acquire(m.lock, m.thread), m, target, overrides)

Container_register_end(m, r) ==
    [m |-> [m EXCEPT !.registry = r.storage], ret |-> None,
     err |-> IF r.err.exc = "" THEN NoErr
             ELSE [r.err EXCEPT !.exc = "RegistrationError"]]

\* register(*targets) under the lock
Container_register(m, targets) ==
    Container_register_end(m, Registry_register(m.registry, targets, 1))

\* add_settings(rules): registers every target the rules mention, then
\* merges the rules into the rule store (a later rule of a target replaces
\* the earlier one)
Container_add_settings_to(m, rules, order) ==
    Ok([m EXCEPT !.registry = IF m.engine = "Resolver"
                              THEN Registrator_call(@, order, 1).storage
                              ELSE Registry_register(@, order, 1).storage,
                 !.settings = [t \in (DOMAIN @) \cup (DOMAIN rules) |->
                                  IF t \in DOMAIN rules THEN rules[t] ELSE @[t]]],
       None)

Container_add_settings(m, rules) ==
    Container_add_settings_to(m, rules,
        CHOOSE seq \in [1..Cardinality(DOMAIN rules) -> DOMAIN rules] :
            \A k \in DOMAIN rules : \E i \in DOMAIN seq : seq[i] = k)

(***************************************************************************)
(* The container as a state machine.                                       *)
(***************************************************************************)
Engines == {"Resolver", "Builder"}

\* what a call met: the rule, the factories and the cache entry of its
\* target, the registry, the rules and the cache (resolve), the registry and
\* the cache it was to clear (reset), its arguments (register)
NoPre == [rule |-> EMPTY_SETTINGS, factories |-> <<>>, cached |-> FALSE,
          registry |-> EmptyMap, instances |-> EmptyMap, targets |-> <<>>,
          settings |-> EmptyMap]

NoCall == [op |-> "none", target |-> "", pre |-> NoPre, ret |-> None, err |-> NoErr,
           calls |-> <<>>, resets |-> <<>>, skips |-> <<>>, path |-> <<>>,
           raised |-> "", nested |-> <<>>, lookups |-> <<>>, builds |-> <<>>]

Short(call) == [op |-> call.op, ret |-> call.ret,
                target |-> IF call.op = "resolve" THEN call.target ELSE "",
                failed |-> call.err.exc # "", cached |-> call.pre.cached,
                dropped |-> IF call.op = "reset" THEN call.pre.instances ELSE EmptyMap]

\* the rules the application adds, one add_settings call each
RuleMenu(a) ==
    CASE a = "iface" ->
            {[t \in {"Interface"} |-> factory("Implementation1")],
             [t \in {"Interface"} |-> factory("Implementation2")],
             [t \in {"Interface"} |-> scope(TRANSIENT)]}
            \cup {[t \in {"Interface"} |-> instance(o)] : o \in PrebuiltObjects}
      [] a = "diamond" -> {[t \in {"C"} |-> scope(TRANSIENT)]}
      [] a = "cycle" -> {}
      [] a = "reset" -> {[t \in {"Interface"} |-> factory("reset_obj")]}
      [] a = "defaults" -> {[t \in {"Interface"} |-> factory("empty_factory")]}
      [] a = "errors" ->
            {[t \in {"ErrorImplementation"} |-> init([k \in {"some_str"} |-> Literal(v)])] :
                v \in {"str", "list"}}
            \cup {[t \in {"Interface"} |-> factory("failing_factory")],
                  [t \in {"Composition"} |-> init([k \in {"impl"} |-> Prebuilt(TRUE)])]}
      \* a literal for a parameter whose type has two implementations, and
      \* for one whose type depends on the class itself
      [] a = "priority" ->
            {[t \in {"Composition"} |-> init([k \in {"impl"} |-> Prebuilt(TRUE)])],
             [t \in {"LinkedA"} |-> init([k \in {"instance"} |-> Prebuilt(TRUE)])]}
      \* a factory of SomeCls that returns nothing
      [] a = "params" -> {}
      [] a = "omitted" -> {[t \in {"SomeCls"} |-> factory("empty_factory")]}
      [] a = "isolation" -> {[t \in {"Composition"} |-> factory("make_many")]}
      [] a = "nested" ->
            {[t \in {"Interface"} |-> factory(f)] :
                f \in {"make_obj", "make_obj_with_settings", "make_obj_with_instance",
                       "make_cycle"}}
            \cup {[t \in {"Implementation1"} |-> scope(TRANSIENT)]}
      [] a = "layers" ->
            {[t \in {"Interface"} |-> factory(f)] :
                f \in {"make_obj", "make_obj_with_settings"}}
            \cup {[t \in {"Implementation1"} |-> scope(SINGLETON)]}

Machine ==
    [registry |-> registry, settings |-> settings, instances |-> instances,
     builders |-> <<>>, stack |-> <<>>, active |-> 0, depth |-> 0,
     nextId |-> nextId, calls |-> <<>>, resets |-> <<>>, watermark |-> 0,
     skips |-> <<>>, path |-> <<>>, raised |-> "",
     thread |-> "main", lock |-> Unlocked, nested |-> <<>>, lookups |-> <<>>,
     builds |-> <<>>,
     falsy |-> falsy, engine |-> engine]

\* a reset of the log went through
HasReset(resets) == \E i \in 1..Len(resets) : resets[i].raised = ""

Commit(r, call) ==
    /\ r.m.nextId <= MaxObj + 1
    /\ registry' = r.m.registry
    /\ settings' = r.m.settings
    /\ instances' = r.m.instances
    /\ nextId' = r.m.nextId
    /\ last' = call
    /\ prev' = Short(last)
    /\ watermark' = IF HasReset(r.m.resets) THEN r.m.watermark ELSE watermark
    /\ UNCHANGED <<app, program, engine, falsy, th, cfg>>

\* the record of a call; resets lists the resets made inside a resolve
Call(op, target, pre, r) ==
    [op |-> op, target |-> target, pre |-> pre, ret |-> r.ret, err |-> r.err,
     calls |-> r.m.calls,
     resets |-> IF op = "reset" THEN <<>> ELSE r.m.resets,
     skips |-> r.m.skips, path |-> r.m.path, raised |-> r.m.raised,
     nested |-> r.m.nested, lookups |-> r.m.lookups, builds |-> r.m.builds]

\* the call op ends as r: the container is as it left it
Finish(op, target, pre, r) == Commit(r, Call(op, target, pre, r))

\* the container after Registrator.__call__
Registrator_end(m, g) ==
    [m |-> [m EXCEPT !.registry = g.storage], ret |-> None, err |-> g.err]

PreResolve(target) ==
    [NoPre EXCEPT
        !.rule = IF target \in DOMAIN settings THEN settings[target] ELSE EMPTY_SETTINGS,
        !.factories = IF target \in DOMAIN registry THEN registry[target] ELSE <<>>,
        !.cached = target \in DOMAIN instances,
        !.registry = registry, !.settings = settings, !.instances = instances]

PreReset == [NoPre EXCEPT !.registry = registry, !.instances = instances]

\* what register(*targets) was called with, and the registry it met
PreRegister(targets) == [NoPre EXCEPT !.registry = registry, !.targets = targets]

\* a new container of the application: nothing registered, no rule, nothing
\* cached
Start ==
    /\ program = [name \in Names |-> Definitions(name)]
    /\ engine \in Engines
    /\ falsy \in SUBSET MayBeFalsy(app)
    /\ registry = EmptyMap
    /\ settings = EmptyMap
    /\ instances = EmptyMap
    /\ nextId = 1
    /\ last = NoCall
    /\ prev = Short(NoCall)
    /\ watermark = 0
    /\ th = <<>>
    /\ cfg = <<>>

Init ==
    /\ app \in Apps
    /\ Start

InitNested ==
    /\ app \in NestedApps
    /\ Start

\* container.register(*targets)
Register(targets) ==
    Finish("register", "", PreRegister(targets),
           IF engine = "Resolver"
           THEN Registrator_end(Machine, Registrator_call(registry, targets, 1))
           ELSE Container_register(Machine, targets))

\* container.add_settings(rules)
AddSettings(rules) ==
    /\ \A t \in DOMAIN rules : rules[t].ok
    /\ Finish("add_settings", "", NoPre, Container_add_settings(Machine, rules))

\* container.resolve(target)
Resolve(target) ==
    Finish("resolve", target, PreResolve(target),
           IF engine = "Resolver" THEN Resolver_call(Machine, target)
           ELSE Container_resolve(Machine, target, EmptyMap))

\* container.reset()
Reset ==
    Finish("reset", "", PreReset, CallReset(Machine))

Next ==
    \/ \E targets \in AppRegisters(app) : Register(targets)
    \/ \E rules \in RuleMenu(app) : AddSettings(rules)
    \/ \E target \in AppResolves(app) : Resolve(target)
    \/ Reset

Spec == Init /\ [][Next]_vars

\* the applications of tests/test_nested_resolve.py
SpecNested == InitNested /\ [][Next]_vars

\* the application that gives literals to parameters of classes
InitPriority == app = "priority" /\ Start

SpecPriority == InitPriority /\ [][Next]_vars

InitParams == app \in ParamApps /\ Start

SpecParams == InitParams /\ [][Next]_vars

InitFailures == app \in FailureApps /\ Start

SpecFailures == InitFailures /\ [][Next]_vars

(***************************************************************************)
(* Several threads on one container.  An operation under the lock takes    *)
(* two steps: the thread enters the with block (T_Begin), then runs the    *)
(* body and leaves the block (T_End).  Resolver.reset takes no lock and    *)
(* makes its two assignments in two steps.                                 *)
(*   th.pc[t]   : "idle", "inside" (in a with block) or "reset" (between   *)
(*                the two assignments of Resolver.reset)                   *)
(*   th.op[t]   : the operation t is in                                    *)
(*   th.left[t] : the operations t may still call                          *)
(*   th.lock    : the container's lock                                     *)
(*   th.res[t]  : what the last resolve of t returned                      *)
(*   th.pure    : so far the threads have called nothing but resolve       *)
(*   th.made    : the invocations of Implementation1 so far                *)
(***************************************************************************)
Threads == 1..NumThreads

NoOp == [kind |-> "none", target |-> "", rules |-> EmptyMap]

ThreadOps ==
    {[kind |-> "resolve", target |-> "Interface", rules |-> EmptyMap],
     [kind |-> "register", target |-> "Implementation2", rules |-> EmptyMap],
     [kind |-> "add_settings", target |-> "",
      rules |-> [t \in {"Interface"} |-> factory("Implementation1")]],
     [kind |-> "reset", target |-> "", rules |-> EmptyMap]}

\* the container as the thread t finds it, outside the with block
MachineOf(t) == [Machine EXCEPT !.thread = t]

\* the with block was entered in T_Begin
Held == [ok |-> TRUE, lock |-> th.lock]

\* the body of the operation op as the thread t runs it
ThreadBody(t, op) ==
    CASE op.kind = "resolve" ->
            IF engine = "Resolver"
            THEN Resolver_locked(Held, MachineOf(t), op.target)
            ELSE Container_resolve_locked(Held, MachineOf(t), op.target, EmptyMap)
      [] op.kind = "register" ->
            IF engine = "Resolver"
            THEN Registrator_end(MachineOf(t), Registrator_call(registry, <<op.target>>, 1))
            ELSE Container_register(MachineOf(t), <<op.target>>)
      [] op.kind = "add_settings" -> Container_add_settings(MachineOf(t), op.rules)
      [] op.kind = "reset" -> CallReset(MachineOf(t))

InitThreads ==
    /\ app = "iface"
    /\ program = [name \in Names |-> Definitions(name)]
    /\ engine \in Engines
    /\ falsy \in SUBSET MayBeFalsy(app)
    /\ registry = Registrator_call(EmptyMap, <<"Implementation1">>, 1).storage
    /\ settings = EmptyMap
    /\ instances = EmptyMap
    /\ nextId = 1
    /\ last = NoCall
    /\ prev = Short(NoCall)
    /\ watermark = 0
    /\ cfg = <<>>
    /\ th = [pc |-> [t \in Threads |-> "idle"],
             op |-> [t \in Threads |-> NoOp],
             left |-> [t \in Threads |-> MaxOps],
             lock |-> Unlocked,
             res |-> [t \in Threads |-> None],
             pure |-> TRUE,
             made |-> 0]

\* `with self._lock`: the thread t enters the with block of the operation op
\* when the lock lets it; reset of the Resolver container has no with block
T_Begin(t, op) ==
    /\ th.pc[t] = "idle" /\ th.left[t] > 0
    /\ ~(op.kind = "reset" /\ engine = "Resolver")
    /\ RLock_acquire(th.lock, t).ok
    /\ th' = [th EXCEPT !.pc[t] = "inside", !.op[t] = op, !.left[t] = @ - 1,
                        !.lock = RLock_acquire(th.lock, t).lock,
                        !.pure = @ /\ op.kind = "resolve"]
    /\ UNCHANGED <<app, program, engine, falsy, registry, settings, instances, nextId,
                   last, prev, watermark, cfg>>

\* the operation of t has ended as r
T_Commit(t, r) ==
    /\ r.m.nextId <= MaxObj + 1
    /\ registry' = r.m.registry
    /\ settings' = r.m.settings
    /\ instances' = r.m.instances
    /\ nextId' = r.m.nextId
    /\ th' = [th EXCEPT !.pc[t] = "idle", !.op[t] = NoOp,
                        !.lock = RLock_release(th.lock),
                        !.res[t] = IF th.op[t].kind = "resolve" THEN r.ret ELSE @,
                        !.made = @ + Cardinality({i \in 1..Len(r.m.calls) :
                                                    r.m.calls[i] = "Implementation1"})]
    /\ UNCHANGED <<app, program, engine, falsy, last, prev, watermark, cfg>>

\* the thread t runs the body of its operation and leaves the with block
T_End(t) ==
    /\ th.pc[t] = "inside"
    /\ T_Commit(t, ThreadBody(t, th.op[t]))

\* Resolver.reset, first assignment: self._settings = dict()
T_ResetSettings(t) ==
    /\ engine = "Resolver"
    /\ th.pc[t] = "idle" /\ th.left[t] > 0
    /\ settings' = Resolver_reset(Machine).settings
    /\ th' = [th EXCEPT !.pc[t] = "reset", !.left[t] = @ - 1, !.pure = FALSE]
    /\ UNCHANGED <<app, program, engine, falsy, registry, instances, nextId,
                   last, prev, watermark, cfg>>

\* Resolver.reset, second assignment: self._instances = dict()
T_ResetInstances(t) ==
    /\ th.pc[t] = "reset"
    /\ instances' = Resolver_reset(Machine).instances
    /\ th' = [th EXCEPT !.pc[t] = "idle"]
    /\ UNCHANGED <<app, program, engine, falsy, registry, settings, nextId,
                   last, prev, watermark, cfg>>

NextThreads ==
    \/ \E t \in Threads, op \in ThreadOps : T_Begin(t, op)
    \/ \E t \in Threads : T_End(t)
    \/ \E t \in Threads : T_ResetSettings(t)
    \/ \E t \in Threads : T_ResetInstances(t)

SpecThreads == InitThreads /\ [][NextThreads]_vars

(***************************************************************************)
(* A program that builds a Settings object: constructions and chained      *)
(* calls.                                                                  *)
(*   cfg.s      : the object (the last one constructed without error)      *)
(*   cfg.before : the object as the last call found it                     *)
(*   cfg.call   : the last call and its arguments                          *)
(*   cfg.raised : the exception the last call raised, "" if none           *)
(***************************************************************************)
InitKwargs == {EmptyMap, [k \in {"some_value"} |-> Literal("int")]}

FactoryArgs == {NoFactory, "Implementation1"}

ScopeArgs == {NoScope, SINGLETON, TRANSIENT, "SINGLETONE"}

InstanceArgs == {None} \cup PrebuiltObjects

NoArgs == [init |-> EmptyMap, factory |-> NoFactory, scope |-> NoScope, instance |-> None]

\* the call op(args) on the object made result
Configured(op, args, result) ==
    cfg' = [s |-> IF result.ok THEN result ELSE cfg.s,
            before |-> cfg.s,
            call |-> [op |-> op, args |-> args],
            raised |-> IF result.ok THEN "" ELSE "AssertionError"]

SettingsUnchanged ==
    UNCHANGED <<app, program, engine, falsy, registry, settings, instances, nextId,
                last, prev, watermark, th>>

InitSettings ==
    /\ app = "iface"
    /\ program = [name \in Names |-> Definitions(name)]
    /\ engine = "Resolver"
    /\ falsy = {}
    /\ registry = EmptyMap
    /\ settings = EmptyMap
    /\ instances = EmptyMap
    /\ nextId = 1
    /\ last = NoCall
    /\ prev = Short(NoCall)
    /\ watermark = 0
    /\ th = <<>>
    /\ cfg = [s |-> EMPTY_SETTINGS, before |-> EMPTY_SETTINGS,
              call |-> [op |-> "Settings", args |-> NoArgs], raised |-> ""]

\* Settings(init=..., factory=..., scope=..., instance=...)
S_Construct(args) ==
    /\ Configured("Settings", args,
                  Settings(args.init, args.factory, args.scope, args.instance))
    /\ SettingsUnchanged

\* .init(**kwargs)
S_Init(kwargs) ==
    /\ Configured("init", [NoArgs EXCEPT !.init = kwargs], Settings_init(cfg.s, kwargs))
    /\ SettingsUnchanged

\* .factory(fct)
S_Factory(fct) ==
    /\ Configured("factory", [NoArgs EXCEPT !.factory = fct], Settings_factory(cfg.s, fct))
    /\ SettingsUnchanged

\* .scope(name)
S_Scope(name) ==
    /\ Configured("scope", [NoArgs EXCEPT !.scope = name], Settings_scope(cfg.s, name))
    /\ SettingsUnchanged

\* .instance(obj)
S_Instance(obj) ==
    /\ Configured("instance", [NoArgs EXCEPT !.instance = obj],
                  Settings_instance(cfg.s, obj))
    /\ SettingsUnchanged

NextSettings ==
    \/ \E i \in InitKwargs, f \in FactoryArgs, sc \in ScopeArgs, o \in InstanceArgs :
          S_Construct([init |-> i, factory |-> f, scope |-> sc, instance |-> o])
    \/ \E kwargs \in InitKwargs : S_Init(kwargs)
    \/ \E fct \in FactoryArgs : S_Factory(fct)
    \/ \E name \in ScopeArgs \ {NoScope} : S_Scope(name)
    \/ \E obj \in InstanceArgs : S_Instance(obj)

SpecSettings == InitSettings /\ [][NextSettings]_vars

(***************************************************************************)
(* Properties.  last is the last call on the container, prev the one       *)
(* before it; last.pre is what the last call met when it was made.         *)
(***************************************************************************)
RuleOf(target) ==
    IF target \in DOMAIN settings THEN settings[target] ELSE EMPTY_SETTINGS

FactoriesOf(target) ==
    IF target \in DOMAIN registry THEN registry[target] ELSE <<>>

\* each of the targets was registered as a class: it is its own only factory
Registered(targets) == \A t \in targets : FactoriesOf(t) = <<t>>

Resolved(target) == last.op = "resolve" /\ last.target = target

TwiceResolved(target) ==
    Resolved(target) /\ prev.op = "resolve" /\ prev.target = target

BothReturned == last.err = NoErr /\ ~prev.failed

Count(seq, x) == Cardinality({i \in 1..Len(seq) : seq[i] = x})

\* the rule the last resolve met names an explicit factory or an instance
Overridden ==
    last.pre.rule.factory_ # NoFactory \/ last.pre.rule.instance_ # None

\* C1: for every target whose rule has the default scope SINGLETON, the
\* second of two consecutive resolve calls of it returns the instance the
\* first returned, and invokes no factory.
C1_IdempotentSingleton ==
    \A T \in Names :
        (TwiceResolved(T) /\ BothReturned /\ last.pre.rule.scope_ = SINGLETON)
        => (last.ret = prev.ret /\ last.calls = <<>>)

\* C2 as stated: whenever the rule of T has scope TRANSIENT, however the
\* state was reached, two consecutive resolve(T) calls return two distinct
\* instances.
C2_TransientFreshness ==
    \A T \in Names :
        (TwiceResolved(T) /\ BothReturned /\ last.pre.rule.scope_ = TRANSIENT)
        => last.ret # prev.ret

\* C2 amended: when the rule of T has scope TRANSIENT and the first of two
\* consecutive resolve(T) calls finds no instance of T in the cache (none
\* was cached before the rule was added), the two calls return two distinct
\* instances and the second finds no cached instance either.
C2_TransientFreshUncached ==
    \A T \in Names :
        (TwiceResolved(T) /\ BothReturned /\ last.pre.rule.scope_ = TRANSIENT
            /\ ~prev.cached)
        => (last.ret # prev.ret /\ ~last.pre.cached)

C2_Witness ==
    /\ TwiceResolved("Interface") /\ BothReturned
    /\ last.pre.rule.scope_ = TRANSIENT /\ ~prev.cached
    /\ last.ret # prev.ret

\* C3: with X(a: A, b: B), A(c: C), B(c: C) registered and C of default
\* scope, resolve(X) returns a graph in which A and B hold the same C, and
\* invokes the factory of C at most once.
C3_DiamondSharing ==
    (Resolved("X") /\ Registered({"X", "A", "B", "C"})
        /\ RuleOf("C").scope_ = SINGLETON)
    => /\ last.err = NoErr
       /\ last.ret.kw["a"].kw["c"] = last.ret.kw["b"].kw["c"]
       /\ Count(last.calls, "C") <= 1

\* the types of the dependency cycle T is on
CycleOf(T) ==
    CASE T \in {"CycledA", "CycledB"} -> {"CycledA", "CycledB"}
      [] T \in {"LinkedA", "LinkedB"} -> {"LinkedA", "LinkedB"}
      [] OTHER -> {T}

\* C4: resolving a registered type that is on a dependency cycle (mutual or
\* on itself) fails with a cycle-detected error naming the repeated type.
C4_Cycle ==
    \A T \in {"CycledA", "CycledB", "SelfReferenced", "LinkedA", "LinkedB"} :
        (Resolved(T) /\ Registered(CycleOf(T)))
        => (last.err.kind = "CycleDetected" /\ last.err.on = T /\ last.ret = None)

\* C5 as stated: resolving a target with more than one registered factory
\* and no rule naming a factory or an instance fails with the
\* ambiguous-implementation resolution error and returns no instance.
C5_Ambiguity ==
    \A T \in Names :
        (Resolved(T) /\ Len(last.pre.factories) > 1 /\ ~Overridden)
        => /\ last.err.exc = "ResolutionError"
           /\ last.err.kind = "AmbiguousImplementation"
           /\ last.ret = None

\* C5 amended: the same, for a target that has no instance in the cache
\* when it is resolved (an instance cached while the target had a single
\* factory is returned also after a second factory was registered).
C5_AmbiguityUncached ==
    \A T \in Names :
        (Resolved(T) /\ Len(last.pre.factories) > 1 /\ ~Overridden
            /\ ~last.pre.cached)
        => /\ last.err.exc = "ResolutionError"
           /\ last.err.kind = "AmbiguousImplementation"
           /\ last.err.on = T
           /\ last.ret = None

C5_Witness ==
    /\ Resolved("Interface") /\ Len(last.pre.factories) > 1
    /\ ~Overridden /\ ~last.pre.cached
    /\ last.err.kind = "AmbiguousImplementation"

\* C6 as stated: resolving a target that has no factory (registered as a
\* bare interface, or never registered) and no rule naming a factory or an
\* instance fails with the no-implementation resolution error.
C6_NoImplementation ==
    \A T \in Names :
        (Resolved(T) /\ Len(last.pre.factories) = 0 /\ ~Overridden)
        => /\ last.err.exc = "ResolutionError"
           /\ last.err.kind = "NoImplementation"

\* C6 amended: the same, for a target that has no instance in the cache
\* when it is resolved (an instance built under a rule that has since been
\* replaced stays cached and is returned).
C6_NoImplementationUncached ==
    \A T \in Names :
        (Resolved(T) /\ Len(last.pre.factories) = 0 /\ ~Overridden
            /\ ~last.pre.cached)
        => /\ last.err.exc = "ResolutionError"
           /\ last.err.kind = "NoImplementation"
           /\ last.err.on = T
           /\ last.ret = None

C6_Witness ==
    /\ Resolved("Interface") /\ last.pre.factories = <<>>
    /\ "Interface" \in DOMAIN registry
    /\ ~Overridden /\ ~last.pre.cached
    /\ last.err.kind = "NoImplementation"

\* C7 as stated: for a target with two registered implementations (classes),
\* whenever the rule in force names one of them as the factory, resolve returns an
\* instance built by that implementation, after any sequence of
\* add_settings and resolve calls.
C7_Disambiguation ==
    \A T \in Names :
        (Resolved(T) /\ Len(last.pre.factories) = 2
            /\ InSeq(last.pre.rule.factory_, last.pre.factories)
            /\ Defs(last.pre.rule.factory_).kind = "class")
        => (last.err = NoErr /\ last.ret.by = last.pre.rule.factory_)

\* C7 amended: the same, for a target that has no instance in the cache
\* when it is resolved (a cached instance is returned whatever the rule in
\* force says, until reset).
C7_DisambiguationUncached ==
    \A T \in Names :
        (Resolved(T) /\ Len(last.pre.factories) = 2
            /\ InSeq(last.pre.rule.factory_, last.pre.factories)
            /\ Defs(last.pre.rule.factory_).kind = "class"
            /\ ~last.pre.cached)
        => /\ last.err = NoErr
           /\ last.ret.by = last.pre.rule.factory_
           /\ last.calls = <<last.pre.rule.factory_>>

C7_Witness ==
    /\ Resolved("Interface") /\ Len(last.pre.factories) = 2
    /\ last.pre.rule.factory_ = "Implementation2" /\ ~last.pre.cached
    /\ last.ret.by = "Implementation2"
    /\ prev.op = "add_settings"

\* C8: a resolve of a target whose rule carries a pre-built instance returns
\* exactly that instance and invokes no factory, whatever was resolved
\* before the rule was set and whatever the value of the instance.
C8_InstanceOverride ==
    \A T \in Names :
        (Resolved(T) /\ last.pre.rule.instance_ # None)
        => /\ last.err = NoErr
           /\ last.ret = last.pre.rule.instance_
           /\ last.calls = <<>>

\* C9: a reset() called on the container (no resolve running) leaves the
\* rule store and the instance cache empty and the registry as it was; the
\* resolve that follows it meets no rule and no cached instance, so it fails
\* for a target that has not exactly one factory and returns an instance
\* other than the one reset dropped for a target that was cached; and no
\* resolve ever returns an instance constructed before the last reset.
C9_Reset ==
    /\ (last.op = "reset" /\ last.err = NoErr)
       => /\ settings = EmptyMap
          /\ instances = EmptyMap
          /\ registry = last.pre.registry
    /\ (prev.op = "reset" /\ ~prev.failed /\ last.op = "resolve")
       => /\ last.pre.rule = EMPTY_SETTINGS
          /\ ~last.pre.cached
          /\ Len(last.pre.factories) # 1 => (last.err # NoErr /\ last.ret = None)
          /\ (last.err = NoErr /\ last.target \in DOMAIN prev.dropped)
             => last.ret # prev.dropped[last.target]
    /\ (last.op = "resolve" /\ last.err = NoErr /\ last.ret.id > 0)
       => last.ret.id >= watermark

\* resolve(T) cached an instance, reset dropped it, the next resolve(T)
\* returned another one
C9_Witness ==
    /\ prev.op = "reset" /\ ~prev.failed
    /\ last.op = "resolve" /\ last.err = NoErr
    /\ last.target \in DOMAIN prev.dropped
    /\ last.ret # prev.dropped[last.target]
    /\ last.target \in DOMAIN instances

\* C10: every reset() called while a resolve is running raises an assertion
\* error and leaves the rule store and the instance cache as they were.
C10_ResetPrecondition ==
    \A i \in 1..Len(last.resets) :
        last.resets[i].active > 0
        => /\ last.resets[i].raised = "AssertionError"
           /\ last.resets[i].rules_after = last.resets[i].rules_before
           /\ last.resets[i].cache_after = last.resets[i].cache_before

\* the target was registered as a class, has no rule and no cached instance
\* when the last resolve was made
PlainClass(T) ==
    /\ last.pre.factories = <<T>>
    /\ last.pre.rule = EMPTY_SETTINGS
    /\ ~last.pre.cached

\* nothing can build the type: no factory, no rule, no cached instance
Unresolvable(T) ==
    /\ FactoriesOf(T) = <<>>
    /\ T \notin DOMAIN settings
    /\ T \notin DOMAIN instances

\* C11: when the declared type of a factory parameter cannot be resolved (it
\* is unregistered) and the parameter has a default value, None or any
\* other, the resolve of the owning target succeeds and the parameter is
\* left to its default.
C11_MissingDependencyDefault ==
    \A T \in {"WithNoneDefault", "WithValueDefault"} :
        (Resolved(T) /\ PlainClass(T) /\ Unresolvable("SomeCls"))
        => /\ last.err = NoErr
           /\ last.ret.by = T
           /\ "dep" \notin DOMAIN last.ret.kw

\* C12: when the build of the type of a parameter yields nothing (the
\* factory of Interface returned None) and the parameter (impl of
\* Composition) has no default, the resolve - of Composition or of a target
\* that depends on it - fails with the missing-dependency resolution error
\* and Composition is not invoked.
C12_MissingDependency ==
    \A T \in {"Composition", "OptionalComposition"} :
        (Resolved(T) /\ PlainClass(T)
            /\ FactoriesOf("Composition") = <<"Composition">>
            /\ "Composition" \notin DOMAIN settings
            /\ RuleOf("Interface") = factory("empty_factory"))
        => /\ last.err.exc = "ResolutionError"
           /\ last.err.kind = "MissingDependency"
           /\ last.ret = None
           /\ Count(last.calls, "Composition") = 0

\* C14: a failed build inside a resolve aborts the resolve: the resolve
\* never goes on after the build of a parameter failed by ambiguity, cycle,
\* missing dependency or construction error (the one build it may go on
\* after is that of C11, of a type without implementation).
C14_FailureAborts ==
    last.op = "resolve"
    => \A i \in 1..Len(last.skips) : last.skips[i].kind = "NoImplementation"

\* C13: when a resolve fails with a resolution error, the chain the error
\* renders has exactly one (target, factory, argument) entry for each target
\* being built, from the requested target down to the failing one; a
\* dependency that has completed, built or served from the cache, has no
\* entry and leaves the entries of its parents alone.
C13_ErrorChain ==
    (last.op = "resolve" /\ engine = "Resolver" /\ last.err.exc = "ResolutionError")
    => last.err.chain = last.path

\* C15: whenever the call of a factory fails during a resolve - the factory
\* raised, or the arguments do not fit its signature - the resolve ends with
\* a ResolutionError (construction error), and with no other exception.
C15_ConstructionError ==
    (last.op = "resolve" /\ last.raised # "")
    => /\ last.err.exc = "ResolutionError"
       /\ last.err.kind = "ConstructionError"

\* C16: a resolve called by a factory while a resolve of the same thread is
\* running on the container never waits for the lock; the nested
\* resolve(Implementation1) of a registered Implementation1 completes with
\* an instance of it; and when the nested resolve has completed, the outer
\* resolve completes with a graph that holds the instance it returned.
C16_NestedReentrant ==
    last.op = "resolve"
    => /\ \A i \in 1..Len(last.nested) :
            /\ last.nested[i].active > 0
            /\ last.nested[i].err.exc # "Deadlock"
            /\ (/\ last.nested[i].target = "Implementation1"
                /\ FactoriesOf("Implementation1") = <<"Implementation1">>)
               => /\ last.nested[i].err = NoErr
                  /\ last.nested[i].ret.by = "Implementation1"
            /\ (last.nested[i].err = NoErr /\ last.target = "Interface")
               => (last.err = NoErr /\ last.ret = last.nested[i].ret)
            /\ (/\ last.nested[i].err = NoErr
                /\ last.target = "Composition"
                /\ last.pre.factories = <<"Composition">>)
               => (last.err = NoErr /\ last.ret.kw["impl"] = last.nested[i].ret)

\* test_nested_resolve: the factory of Interface resolved Implementation1
\* and resolve(Composition) returned a Composition that holds it
C16_Witness ==
    /\ Resolved("Composition") /\ last.err = NoErr
    /\ Len(last.nested) = 1
    /\ last.nested[1].by = "make_obj"
    /\ last.nested[1].ret.by = "Implementation1"
    /\ last.ret.kw["impl"] = last.nested[1].ret
    /\ last.calls = <<"make_obj", "Implementation1", "Composition">>

\* the rule of the innermost of the layers rules[1..b] that has one for the
\* target, and that layer; no rule and the first layer when none has
Innermost(rules, b, target) ==
    LET has == {k \in 1..b : target \in DOMAIN rules[k]}
    IN  IF has = {}
        THEN [s |-> EMPTY_SETTINGS, layer |-> 1]
        ELSE LET top == CHOOSE k \in has : \A j \in has : j <= k
             IN  [s |-> rules[top][target], layer |-> top]

\* C17: every rule lookup of a Builder, nested or not, uses the rule of the
\* innermost layer that has a rule for the target (an ancestor's rule only
\* when no nearer layer has one); so the nested
\* resolve(Interface, {Interface: factory(Implementation1)}) made by the
\* factory that the global rule of Interface names returns an instance
\* built by Implementation1, and the nested resolve with
\* {Interface: instance(obj)} returns obj.
C17_NestedOverrides ==
    /\ \A i \in 1..Len(last.lookups) :
           [s |-> last.lookups[i].s, layer |-> last.lookups[i].layer]
               = Innermost(last.lookups[i].rules, last.lookups[i].b,
                           last.lookups[i].target)
    /\ \A i \in 1..Len(last.nested) :
           /\ (engine = "Builder" /\ last.nested[i].by = "make_obj_with_settings")
              => /\ last.nested[i].err = NoErr
                 /\ last.nested[i].ret.by = "Implementation1"
           /\ (engine = "Builder" /\ last.nested[i].by = "make_obj_with_instance")
              => /\ last.nested[i].err = NoErr
                 /\ last.nested[i].ret = Prebuilt(TRUE)

\* a nested Builder found the rule of its own layer for a target the
\* container has a rule for as well, and the nested resolve returned the
\* object that rule makes
C17_Witness ==
    /\ \E i \in 1..Len(last.lookups) :
           /\ last.lookups[i].b = 2 /\ last.lookups[i].layer = 2
           /\ last.lookups[i].target \in DOMAIN last.lookups[i].rules[1]
           /\ last.lookups[i].s.factory_ = "Implementation1"
    /\ \E i \in 1..Len(last.nested) :
           /\ last.nested[i].by = "make_obj_with_settings"
           /\ last.nested[i].ret.by = "Implementation1"

\* the thread t is inside an operation on the container
Inside(t) == th.pc[t] # "idle"

\* C18: register, resolve, add_settings and reset exclude each other: no two
\* threads are inside operations on the container at the same time.
C18_Serialization ==
    \A t, u \in Threads : (Inside(t) /\ Inside(u)) => t = u

\* C19: as long as the threads call nothing but resolve(Interface), with
\* Implementation1 registered and the default scope, every thread receives
\* the same instance and Implementation1 is invoked at most once (once,
\* when a resolve has returned).
C19_SingletonConcurrent ==
    th.pure
    => /\ \A t, u \in Threads :
            (th.res[t] # None /\ th.res[u] # None) => th.res[t] = th.res[u]
       /\ th.made <= 1
       /\ (\E t \in Threads : th.res[t] # None) => th.made = 1

\* what the object would be had the last call gone through unchecked
Wanted ==
    LET a == cfg.call.args
        b == cfg.before
    IN  CASE cfg.call.op = "Settings" ->
                [init_ |-> a.init, factory_ |-> a.factory, instance_ |-> a.instance,
                 scope_ |-> IF a.scope = NoScope THEN SINGLETON ELSE a.scope]
          [] cfg.call.op = "init" ->
                [init_ |-> a.init, factory_ |-> b.factory_, instance_ |-> b.instance_,
                 scope_ |-> b.scope_]
          [] cfg.call.op = "factory" ->
                [init_ |-> b.init_, factory_ |-> a.factory, instance_ |-> b.instance_,
                 scope_ |-> b.scope_]
          [] cfg.call.op = "scope" ->
                [init_ |-> b.init_, factory_ |-> b.factory_, instance_ |-> b.instance_,
                 scope_ |-> a.scope]
          [] cfg.call.op = "instance" ->
                [init_ |-> b.init_, factory_ |-> b.factory_, instance_ |-> a.instance,
                 scope_ |-> b.scope_]

\* an instance together with an init, a factory or scope TRANSIENT
Exclusive(s) ==
    s.instance_ # None
    => (DOMAIN s.init_ = {} /\ s.factory_ = NoFactory /\ s.scope_ = SINGLETON)

\* C20: after any sequence of constructions and chained calls a Settings
\* whose instance is set has an empty init, no factory and scope SINGLETON;
\* and every construction or chained call that would set an instance
\* together with an init, a factory or scope TRANSIENT, in either order,
\* raises AssertionError and leaves the object as it was.
C20_SettingsExclusive ==
    /\ Exclusive(cfg.s)
    /\ ~Exclusive(Wanted) => (cfg.raised = "AssertionError" /\ cfg.s = cfg.before)

\* an instance was set by a chained call, and the call that followed, which
\* would have added a factory to it, raised
C20_Witness ==
    /\ cfg.before.instance_ = Prebuilt(FALSE)
    /\ cfg.call.op = "factory" /\ cfg.call.args.factory = "Implementation1"
    /\ cfg.raised = "AssertionError"
    /\ cfg.s = cfg.before

\* the Settings built with the instance obj and the scope omitted
InstanceOnly(obj) == Settings(EmptyMap, NoFactory, NoScope, obj)

\* C21: a pre-built instance with scope explicitly SINGLETON (no init, no
\* factory) is accepted by the constructor, by scope then instance and by
\* instance then scope, and each way gives the Settings that the constructor
\* gives with the scope omitted.
C21_ExplicitSingleton ==
    LET a == cfg.call.args
        b == cfg.before
    IN  /\ ( /\ cfg.call.op = "Settings"
             /\ a.instance # None /\ a.scope = SINGLETON
             /\ DOMAIN a.init = {} /\ a.factory = NoFactory )
           => (cfg.raised = "" /\ cfg.s = InstanceOnly(a.instance))
        /\ ( /\ cfg.call.op = "instance"
             /\ a.instance # None /\ b.scope_ = SINGLETON
             /\ DOMAIN b.init_ = {} /\ b.factory_ = NoFactory )
           => (cfg.raised = "" /\ cfg.s = InstanceOnly(a.instance))
        /\ ( /\ cfg.call.op = "scope"
             /\ a.scope = SINGLETON /\ b.instance_ # None )
           => (cfg.raised = "" /\ cfg.s = InstanceOnly(b.instance_))

C23_AutoRegister ==
    /\ \A T \in DOMAIN settings :
           Defs(T).kind = "class" => (T \in DOMAIN registry /\ InSeq(T, registry[T]))
    /\ \A T \in DOMAIN settings :
           (Defs(T).kind = "class" /\ Resolved(T))
           => ~(last.err.kind = "NoImplementation" /\ last.err.on = T)
    /\ (app = "errors" /\ Resolved("Composition") /\ ~last.pre.cached
            /\ last.pre.rule = init([k \in {"impl"} |-> Prebuilt(TRUE)]))
       => /\ last.err = NoErr
          /\ last.ret.by = "Composition"
          /\ last.ret.kw = [k \in {"impl"} |-> Prebuilt(TRUE)]

\* the first call was add_settings({Composition: init(impl=...)}), the second
\* resolve(Composition): it returned a Composition
C23_Witness ==
    /\ app = "errors"
    /\ prev.op = "add_settings"
    /\ Resolved("Composition") /\ last.err = NoErr
    /\ last.ret.by = "Composition" /\ last.ret.id = 1
    /\ last.pre.factories = <<"Composition">>
    /\ DOMAIN registry = {"Composition"}

C25_VisitedCleanup ==
    (app = "diamond" /\ last.op = "resolve")
    => /\ last.err.kind # "CycleDetected"
       /\ ( /\ last.target = "X"
            /\ \A T \in {"X", "A", "B", "C"} : FactoriesOf(T) = <<T>>
            /\ RuleOf("C").scope_ = TRANSIENT /\ "C" \notin DOMAIN instances
            /\ ~last.pre.cached )
          => /\ last.err = NoErr
             /\ Count(last.calls, "C") = Count(last.calls, "A") + Count(last.calls, "B")

\* C26: the Builders of one resolve share the visited-set: with the rule
\* Interface: factory(make_cycle), where make_cycle itself calls
\* resolve(Interface), a resolve that comes to build Interface fails with a
\* cycle-detected error; and the set is shared with no other resolve: a
\* resolve reports a cycle only under that rule.
C26_VisitedShared ==
    /\ ( /\ last.op = "resolve"
         /\ last.target \in {"Interface", "Composition"}
         /\ ~last.pre.cached /\ "Interface" \notin DOMAIN instances
         /\ FactoriesOf("Composition") = <<"Composition">>
         /\ RuleOf("Interface") = factory("make_cycle") )
       => last.err.kind = "CycleDetected"
    /\ (last.op = "resolve" /\ last.err.kind = "CycleDetected")
       => RuleOf("Interface") = factory("make_cycle")

\* C27: every instance a Builder of a chain constructs under a rule of
\* scope SINGLETON found in the layer L is, at the return of that build, in
\* the cache of L and in the cache of no other layer; and a later
\* resolve(Implementation1) made from a layer chained below returns the
\* instance the container's layer holds.
C27_CacheLayer ==
    /\ \A i \in 1..Len(last.builds) :
           LET e == last.builds[i]
           IN  (e.obj # None /\ e.s # EMPTY_SETTINGS /\ e.s.scope_ = SINGLETON)
               => /\ e.target \in DOMAIN e.caches[e.layer]
                  /\ e.caches[e.layer][e.target] = e.obj
                  /\ \A k \in 1..Len(e.caches) :
                         k # e.layer => e.target \notin DOMAIN e.caches[k]
    /\ \A i \in 1..Len(last.nested) :
           ( /\ last.nested[i].target = "Implementation1"
             /\ last.nested[i].err = NoErr
             /\ RuleOf("Implementation1") = scope(SINGLETON)
             /\ "Implementation1" \in DOMAIN instances )
           => last.nested[i].ret = instances["Implementation1"]

\* C28: a resolve of a target that is not cached and whose rule carries a
\* pre-built instance returns that instance, whatever the registry holds for
\* the target: no factory is looked up or called, nothing is built and the
\* cache is left without an entry for the target.
C28_InstanceBypass ==
    \A T \in Names :
        (Resolved(T) /\ last.pre.rule.instance_ # None /\ ~last.pre.cached)
        => /\ last.err = NoErr
           /\ last.ret = last.pre.rule.instance_
           /\ last.calls = <<>> /\ last.builds = <<>>
           /\ T \notin DOMAIN instances

\* C29: every non-null result of a successful construction of a target of
\* scope SINGLETON is in the cache afterwards, whatever its truth value, and
\* the next resolve of the target returns it without a construction; a null
\* result is not cached.
C29_CachesAnyObject ==
    \A T \in Names :
        /\ ( /\ Resolved(T) /\ last.err = NoErr /\ last.calls # <<>>
             /\ last.pre.rule.scope_ = SINGLETON /\ last.resets = <<>> )
           => IF last.ret = None
              THEN T \notin DOMAIN instances
              ELSE T \in DOMAIN instances /\ instances[T] = last.ret
        /\ ( /\ TwiceResolved(T) /\ BothReturned
             /\ prev.ret # None /\ ~prev.cached
             /\ last.pre.rule.scope_ = SINGLETON /\ last.pre.rule.instance_ = None )
           => (last.ret = prev.ret /\ last.calls = <<>>)

\* the names of the parameters of a factory
ParamNames(fct) == {Signature(fct)[i].name : i \in 1..Len(Signature(fct))}

\* the init map of the rule keyed by the factory itself
InitOf(fct) == IF fct \in DOMAIN settings THEN settings[fct].init_ ELSE EmptyMap

\* the factory the last resolve chooses for its target
Chosen(T) ==
    IF last.pre.rule.factory_ # NoFactory THEN last.pre.rule.factory_
    ELSE IF Len(last.pre.factories) = 1 THEN last.pre.factories[1]
    ELSE NoFactory

\* the object was made by a factory called in the last resolve
MadeNow(o) == o.id > 0 /\ \E i \in 1..Len(last.calls) : last.calls[i] = o.by

\* the object got the literals of the init map of its factory
InitPassed(o) ==
    MadeNow(o) => \A n \in DOMAIN InitOf(o.by) \cap ParamNames(o.by) :
                      n \in DOMAIN o.kw /\ o.kw[n] = InitOf(o.by)[n]

\* C30: init priority.  An object made in a resolve, or passed to the object
\* it returns, got for every parameter named in the init map of the rule of
\* its factory the literal of the map; and when the map names every parameter
\* of the chosen factory, that factory is the only one called and the only
\* error there can be is one of that call, whatever is registered for the
\* types of the parameters.
C30_InitPriority ==
    \A T \in Names :
        (Resolved(T) /\ last.resets = <<>>)
        => /\ last.err = NoErr
              => \A o \in {last.ret} \cup {last.ret.kw[n] : n \in DOMAIN last.ret.kw} :
                     InitPassed(o)
           /\ ( /\ ~last.pre.cached /\ last.pre.rule.instance_ = None
                /\ Chosen(T) # NoFactory
                /\ ParamNames(Chosen(T)) # {}
                /\ ParamNames(Chosen(T)) \subseteq DOMAIN InitOf(Chosen(T)) )
              => /\ last.calls = <<Chosen(T)>>
                 /\ \/ last.err = NoErr
                    \/ last.err.kind = "ConstructionError" /\ last.err.on = Chosen(T)

\* Composition was built with the literal of its rule for impl while
\* Interface had two implementations registered
C30_Witness ==
    /\ app = "priority" /\ Resolved("Composition") /\ last.err = NoErr
    /\ ~last.pre.cached /\ last.resets = <<>>
    /\ "Interface" \in DOMAIN registry /\ Len(registry["Interface"]) = 2
    /\ "impl" \in DOMAIN InitOf("Composition")
    /\ last.calls = <<"Composition">>
    /\ last.ret.by = "Composition"
    /\ last.ret.kw = [k \in {"impl"} |-> Prebuilt(TRUE)]

\* a primitive or leaf type: numeric, text, boolean, an enumeration, UUID,
\* date and time
Primitive(annotation) ==
    \/ annotation \in {"int", "float", "str", "bool", "Enum", "IntEnum", "UUID",
                       "date", "datetime"}
    \/ \E i \in 1..Len(Defs(annotation).mro) : Defs(annotation).mro[i] = "Enum"

\* every parameter of the factory is one the container has nothing to build
\* for and has no literal in the init map
AllSkipped(fct) ==
    /\ ParamNames(fct) # {}
    /\ \A i \in 1..Len(Signature(fct)) :
           /\ \/ Signature(fct)[i].annotation = NoAnnotation
              \/ Primitive(Signature(fct)[i].annotation)
           /\ Signature(fct)[i].name \notin DOMAIN InitOf(fct)

\* C31: primitive skip.  When every parameter of the chosen factory has no
\* declared type or a primitive one and none is named in init, the factory is
\* the only one called, it is called without arguments, and the only error
\* there can be is one of that call.
C31_PrimitiveSkip ==
    \A T \in Names :
        ( /\ Resolved(T) /\ last.resets = <<>>
          /\ ~last.pre.cached /\ last.pre.rule.instance_ = None
          /\ Chosen(T) # NoFactory /\ AllSkipped(Chosen(T)) )
        => /\ last.calls = <<Chosen(T)>>
           /\ \/ last.err = NoErr /\ last.ret.kw = EmptyMap
              \/ last.err.kind = "ConstructionError" /\ last.err.on = Chosen(T)

\* the parameters of the factory whose declared type T yields nothing when
\* built: no T is cached and the rule of T names a factory that returns None
YieldsNothing(fct) ==
    {i \in 1..Len(Signature(fct)) :
        /\ Signature(fct)[i].default # "empty"
        /\ Signature(fct)[i].name \notin DOMAIN InitOf(fct)
        /\ Signature(fct)[i].annotation \notin DOMAIN instances
        /\ Signature(fct)[i].annotation \in DOMAIN settings
        /\ settings[Signature(fct)[i].annotation].instance_ = None
        /\ Defs(settings[Signature(fct)[i].annotation].factory_).body = "none"}

\* C32: a parameter with a default whose declared type yields None when built
\* is left out of the call of the factory: the object is made, and its
\* arguments do not name the parameter.
C32_DefaultApplies ==
    \A T \in Names :
        ( /\ Resolved(T) /\ last.resets = <<>>
          /\ ~last.pre.cached /\ last.pre.rule.instance_ = None
          /\ Chosen(T) # NoFactory /\ Defs(Chosen(T)).kind = "class"
          /\ YieldsNothing(Chosen(T)) # {} )
        => /\ last.err = NoErr
           /\ last.ret.by = Chosen(T)
           /\ \A i \in YieldsNothing(Chosen(T)) :
                  Signature(Chosen(T))[i].name \notin DOMAIN last.ret.kw

\* C33: after register(*targets) has returned, every concrete class among the
\* targets is a factory of itself and of every ancestor in its inheritance
\* chain, object has no entry, and an abstract class among the targets has an
\* entry, with no factory if it had no entry before and no class of the
\* targets implements it.  Hence resolve(Interface), with only
\* Implementation1 registered, returns an Implementation1.
C33_AncestorFactories ==
    /\ (last.op = "register" /\ last.err = NoErr)
       => /\ "object" \notin DOMAIN registry
          /\ \A i \in 1..Len(last.pre.targets) :
                LET C == last.pre.targets[i]
                IN  /\ Defs(C).kind = "class"
                       => \A j \in 1..Len(Defs(C).mro) :
                              InSeq(C, FactoriesOf(Defs(C).mro[j]))
                    /\ Defs(C).kind = "abstract"
                       => /\ C \in DOMAIN registry
                          /\ ( /\ C \notin DOMAIN last.pre.registry
                               /\ \A k \in 1..Len(last.pre.targets) :
                                      ~InSeq(C, Defs(last.pre.targets[k]).mro)
                                      \/ last.pre.targets[k] = C )
                             => registry[C] = <<>>
    /\ ( /\ Resolved("Interface") /\ last.pre.factories = <<"Implementation1">>
         /\ last.pre.rule = EMPTY_SETTINGS /\ ~last.pre.cached )
       => (last.err = NoErr /\ last.ret.by = "Implementation1")

\* register(Implementation1) on a new container made Implementation1 the
\* factory of itself and of Interface
C33_Witness ==
    /\ last.op = "register" /\ last.err = NoErr
    /\ last.pre.targets = <<"Implementation1">>
    /\ last.pre.registry = EmptyMap
    /\ FactoriesOf("Implementation1") = <<"Implementation1">>
    /\ FactoriesOf("Interface") = <<"Implementation1">>

\* the storage has what registering the target adds
HasEntries(storage, target) ==
    LET Of(t) == IF t \in DOMAIN storage THEN storage[t] ELSE <<>>
    IN  CASE Defs(target).kind = "class" ->
                \A j \in 1..Len(Defs(target).mro) : InSeq(target, Of(Defs(target).mro[j]))
          [] Defs(target).kind = "abstract" -> target \in DOMAIN storage
          [] Defs(target).kind = "function" ->
                Defs(Defs(target).returns).kind \in {"class", "abstract"}
                    => InSeq(target, Of(Defs(target).returns))
          [] OTHER -> FALSE

FromOverrides(l) ==
    {last.builds[i].obj : i \in {k \in 1..Len(last.builds) :
                                    /\ last.builds[k].layer > l
                                    /\ last.builds[k].s # EMPTY_SETTINGS}}

\* the build was made by a Builder of a nested resolve and stored its object
\* in the cache of a layer below that Builder, one that outlives the call
StoredBelow(b) ==
    /\ b.layer < Len(b.caches)
    /\ b.target \in DOMAIN b.caches[b.layer]
    /\ b.caches[b.layer][b.target] = b.obj

\* C35: override isolation.  No build of a nested resolve stores, in the
\* cache of a layer that outlives the nested call, an object that was made
\* with a rule of the layers of overrides above it or that got such an object
\* as an argument.
C35_OverrideIsolation ==
    last.op = "resolve"
    => \A k \in 1..Len(last.builds) :
           StoredBelow(last.builds[k])
           => /\ last.builds[k].obj \notin FromOverrides(last.builds[k].layer)
              /\ \A n \in DOMAIN last.builds[k].obj.kw :
                     last.builds[k].obj.kw[n] \notin FromOverrides(last.builds[k].layer)


\* C36: a resolve that fails, and made no reset, leaves the container's
\* cache as it met it.
C36_FailedNoTrace ==
    (last.op = "resolve" /\ last.err # NoErr /\ last.resets = <<>>)
    => instances = last.pre.instances

\* C37: a resolve, returned or failed, that made no reset leaves the registry
\* and the rules as it met them: no target gets an entry, no list of
\* factories and no rule changes.
C37_ResolveReadOnly ==
    (last.op = "resolve" /\ last.resets = <<>>)
    => (registry = last.pre.registry /\ settings = last.pre.settings)

\* C38: a resolve during which no factory called back into the container ends
\* on its own, by a returned instance or an error the resolve raised: it never
\* runs until the stack of the interpreter is used up.
C38_Terminates ==
    (last.op = "resolve" /\ last.nested = <<>> /\ last.resets = <<>>)
    => last.err.kind # "RecursionError"

\* C39: a register call that raises because one of its targets is neither a
\* class, a function nor a module leaves the registry as it met it: none of
\* the targets listed before the offending one stays registered.
C39_RegisterAtomic ==
    (last.op = "register" /\ last.err # NoErr)
    => registry = last.pre.registry
============================================================================
